---- MODULE Spec2Model ----
(***************************************************************************)
(* Model of the peerio-updater update controller (src/updater.js) and of   *)
(* the helpers it calls (manifest loading, size and hash verification,    *)
(* fetchFile).  One Updater object, its host process, the downloads       *)
(* directory on disk and the network are modelled.  Every asynchronous    *)
(* method is cut at its awaits on I/O: one action per continuation.       *)
(***************************************************************************)
EXTENDS Integers, Sequences, FiniteSets, TLC

\* -------------------------------------------------------------------------
\* Bounds of the model
\* -------------------------------------------------------------------------

\* Number of calls made to the Updater in one run, by the host application
\* (its public methods, a user's quit) or by the interval timer (ticks).
MaxCalls == 2

\* -------------------------------------------------------------------------
\* Program constants
\* -------------------------------------------------------------------------

DEFAULT_INTERVAL == 36000000
MIN_INTERVAL == 900000

\* -------------------------------------------------------------------------
\* Values
\* -------------------------------------------------------------------------

OpIds == 1 .. MaxCalls

\* semver versions are triples <<major, minor, patch>>; BadVersion is a string
\* semver.valid rejects.
BadVersion == <<>>
Versions == { <<0, 9, 0>>, <<1, 0, 0>>, <<1, 0, 1>>, <<1, 1, 0>> }

\* semver.valid(v) !== null
SemverValid(v) == Len(v) = 3

\* semver.gt(a, b) for valid a, b
SemverGt(a, b) ==
    \/ a[1] > b[1]
    \/ a[1] = b[1] /\ a[2] > b[2]
    \/ a[1] = b[1] /\ a[2] = b[2] /\ a[3] > b[3]

\* JavaScript undefined / null / NaN for strings and numbers
Undefined == "undefined"
NaN == -1

\* parseInt(s, 10) of a manifest value
ParseInt(s) ==
    CASE s = "0" -> 0
      [] s = "1" -> 1
      [] s = "2" -> 2
      [] OTHER -> NaN

\* Paths are sequences of characters, so that String.startsWith is a prefix test.
StartsWith(p, d) == Len(p) >= Len(d) /\ SubSeq(p, 1, Len(d)) = d

DefaultDirectory == <<"/", "t">>
OtherDirectory == <<"/", "u">>
NoPath == <<>>

Digit(i) == <<"1", "2", "3", "4", "5", "6", "7", "8", "9">>[i]

\* path.join(directory, name)
PathJoin(d, name) == d \o <<"/">> \o name

\* `peerio-update-${crypto.randomBytes(10).toString('hex')}.tmp`: a fresh name
\* for every call, here the number of the call.
TmpName(id) == <<"p", Digit(id)>>

\* -------------------------------------------------------------------------
\* Manifests (src/manifest.js)
\* -------------------------------------------------------------------------

\* Signing keys by key number; the Updater is configured with publicKeys.
publicKeys == { "k1" }

\* Manifest.data of a loaded manifest, for the current platform:
\*   version, <platform>-file, <platform>-size, <platform>-sha512
NullManifest == [version |-> BadVersion, file |-> Undefined, size |-> Undefined, sha512 |-> Undefined]

Data(v, f, s, h) == [version |-> v, file |-> f, size |-> s, sha512 |-> h]

\* A manifest text as served: short (fewer than three lines), the key number
\* of its signature, whether the signature is a valid signature of the body
\* by that key, and the body's data.
Text(short, k, ok, d) == [short |-> short, keynum |-> k, sigok |-> ok, data |-> d]

ManifestTexts ==
    { Text(FALSE, "k1", TRUE, Data(<<1, 0, 1>>, "https://f/a", "1", "aa")),
      Text(FALSE, "k1", TRUE, Data(<<1, 1, 0>>, "https://f/b", Undefined, "bb")),
      Text(FALSE, "k1", TRUE, Data(<<1, 1, 0>>, Undefined, "1", "aa")),
      Text(FALSE, "k1", TRUE, Data(<<1, 0, 0>>, "https://f/a", "1", "aa")),
      Text(FALSE, "k1", TRUE, Data(<<0, 9, 0>>, "https://f/a", "1", "aa")),
      Text(FALSE, "k1", TRUE, Data(BadVersion, "https://f/a", "1", "aa")),
      Text(FALSE, "k1", FALSE, Data(<<2, 0, 0>>, "https://f/e", "1", "aa")),
      Text(FALSE, "k2", TRUE, Data(<<2, 0, 0>>, "https://f/e", "1", "aa")),
      Text(TRUE, "k1", FALSE, Data(BadVersion, Undefined, Undefined, Undefined)) }

\* A result of a function that may throw.
Ok(v) == [ok |-> TRUE, val |-> v, err |-> "none"]
Throw(e) == [ok |-> FALSE, val |-> NullManifest, err |-> e]

\* signing.verify(publicKeys, sig, text): "none" or the error thrown
Verify(keys, t) ==
    IF t.keynum \notin keys THEN "NoMatchingKey"
    ELSE IF ~t.sigok THEN "InvalidSignature"
    ELSE "none"

\* Manifest._validate(data)
Validate(d) == IF SemverValid(d.version) THEN "none" ELSE "InvalidVersion"

LoadFromStringUnverified(keys, t) ==
    IF t.short THEN Throw("BadManifest")
    ELSE IF Validate(t.data) # "none" THEN Throw(Validate(t.data))
    ELSE Ok(t.data)

\* Manifest.loadFromString(publicKeys, source)
LoadFromString(keys, t) ==
    IF t.short THEN Throw("BadManifest")
    ELSE IF Verify(keys, t) # "none" THEN Throw(Verify(keys, t))
    ELSE IF Validate(t.data) # "none" THEN Throw(Validate(t.data))
    ELSE Ok(t.data)

\* Manifest.isNewerVersionThan(currentVersion)
IsNewerVersionThan(m, cur) == SemverGt(m.version, cur)

GetFile(m) == m.file
GetSize(m) == ParseInt(m.size)
GetSha512(m) == m.sha512

\* parseInt never yields null: `size == null` is false for every size.
NullNum == -2

\* -------------------------------------------------------------------------
\* Configuration of the Updater (constructor arguments)
\* -------------------------------------------------------------------------

currentVersion == <<1, 0, 0>>
manifestURLs == << "github:o/r", "https://m/manifest.txt" >>

IsGitHub(address) == address = "github:o/r"

\* -------------------------------------------------------------------------
\* The network, as one _fetchManifest call sees it
\* -------------------------------------------------------------------------

\* Reply of the GitHub releases API: a failed request, JSON null, or a release.
Release(st, tag, asset) == [status |-> st, tag |-> tag, asset |-> asset]

GitHubReplies ==
    { Release("err", BadVersion, FALSE), Release("null", BadVersion, FALSE),
      Release("ok", BadVersion, TRUE),
      Release("ok", <<1, 0, 0>>, TRUE),
      Release("ok", <<1, 1, 0>>, TRUE), Release("ok", <<1, 1, 0>>, FALSE) }

\* Reply to fetchText of a manifest URL: a failed request or a text.
TextReplies ==
    { [status |-> "err", text |-> Text(TRUE, "k1", FALSE, NullManifest)] }
      \cup { [status |-> "ok", text |-> t] : t \in ManifestTexts }

NoText == [status |-> "err", text |-> Text(TRUE, "k1", FALSE, NullManifest)]

\* What the network may answer to one _fetchManifest(address): the release
\* reply matters for a github: address only, the text reply only when a
\* manifest text is requested.
FetchesText(rel) ==
    rel.status = "ok" /\ SemverValid(rel.tag) /\ rel.asset /\ SemverGt(rel.tag, currentVersion)

NetsFor(address) ==
    IF IsGitHub(address)
    THEN { [rel |-> r, txt |-> NoText] : r \in { g \in GitHubReplies : ~FetchesText(g) } }
         \cup { [rel |-> r, txt |-> t] : r \in { g \in GitHubReplies : FetchesText(g) },
                                        t \in TextReplies }
    ELSE { [rel |-> Release("err", BadVersion, FALSE), txt |-> t] : t \in TextReplies }


\* Updater._fetchManifest for a plain URL
FetchManifestURL(net) ==
    IF net.txt.status = "err" THEN Throw("RequestFailed")
    ELSE LoadFromString(publicKeys, net.txt.text)

\* Updater._fetchManifestFromGitHub; a missing release or an old tag yields
\* undefined, here NullManifest.
FetchManifestFromGitHub(net) ==
    IF net.rel.status = "err" THEN Throw("RequestFailed")
    ELSE IF net.rel.status = "null" THEN Ok(NullManifest)
    ELSE IF ~SemverValid(net.rel.tag) THEN Throw("TypeError")
    ELSE IF SemverGt(net.rel.tag, currentVersion)
         THEN IF net.rel.asset THEN FetchManifestURL(net) ELSE Throw("NoManifestAsset")
         ELSE Ok(NullManifest)

\* Updater._fetchManifest(address)
FetchManifest(address, net) ==
    IF IsGitHub(address) THEN FetchManifestFromGitHub(net) ELSE FetchManifestURL(net)

\* -------------------------------------------------------------------------
\* Files
\* -------------------------------------------------------------------------

\* Content of a file: its size and the lowercase hex SHA-512 of its bytes.
NoFile == [exists |-> FALSE, size |-> 0, hash |-> "none"]
File(sz, h) == [exists |-> TRUE, size |-> sz, hash |-> h]

\* What the server may send as the update file at an address.
Served(address) ==
    IF address = "https://f/a" THEN { File(1, "aa"), File(2, "aa"), File(1, "cc") }
    ELSE { File(2, "bb") }

\* What is left of a download whose stream failed.
PartialFile == File(0, "partial")

\* size.js verifySize(correctSize, filepath): "none" or the error
VerifySize(correctSize, f) ==
    IF ~f.exists THEN "ENOENT"
    ELSE IF f.size # correctSize THEN "SizeMismatch"
    ELSE "none"

\* hash.js verifyHash(correctHash, filepath): "none" or the error
VerifyHash(correctHash, f) ==
    IF ~f.exists THEN "ENOENT"
    ELSE IF f.hash # correctHash THEN "HashMismatch"
    ELSE "none"

\* -------------------------------------------------------------------------
\* State
\* -------------------------------------------------------------------------

VARIABLES
    newVersion,        \* this.newVersion (NullManifest for null)
    downloadedFile,    \* this.downloadedFile (NoPath for null)
    autoInstall,       \* this.autoInstall
    checking,          \* this.checking
    downloading,       \* this.downloading
    directory,         \* this._directory
    exitHookInstalled, \* this._exitHookInstalled
    restart,           \* this.restart: "undefined", "false", "true"
    intervalId,        \* this._intervalId: 0 for undefined, else the timer made last
    timers,            \* the set of active interval timers [id, period]
    ops,               \* the asynchronous calls made so far and where each stands
    calls,             \* number of API calls made
    events,            \* the events emitted by each checkForUpdates call, in order
    disk,              \* the update files in the file system
    infoFile,          \* content of <directory>/update-info.json
    infoWrites,        \* the UpdateInfo writes attempted, in order
    hooks,             \* number of exit hooks registered with the host
    installs,          \* invocations of the platform installer, in order
    electron,          \* process.versions.electron is set: "yes", "no", or
                       \* "unknown" until the first quit of the run reads it
    phase              \* "running", "installing" (installer took over), "exited"

vars == << newVersion, downloadedFile, autoInstall, checking, downloading, directory,
           exitHookInstalled, restart, intervalId, timers, ops, calls, events, disk,
           infoFile, infoWrites, hooks, installs, electron, phase >>

\* Errors: the kind, the manifest URL index it came from (0 if none), and
\* for a wrapping error the kind of the error wrapped.
NoErr == [kind |-> "none", url |-> 0, cause |-> "none"]
Err(k, u) == [kind |-> k, url |-> u, cause |-> "none"]
\* new Error(`Error checking for update: ${err}`)
CheckError(err) == [kind |-> "CheckError", url |-> err.url, cause |-> err.kind]

\* An emitted event: its name, the method that emitted it ("check" for
\* checkForUpdates, "download" for _downloadUpdate) and its arguments.
Ev(name, by, file, man, err) ==
    [name |-> name, by |-> by, file |-> file, man |-> man, err |-> err]

\* UpdateInfo as JSON text in the info file.
NoInfo == [kind |-> "missing", currentVersion |-> BadVersion, updateVersion |-> BadVersion,
           updateSize |-> NullNum, updateHash |-> Undefined, updateFile |-> NoPath]

\* An asynchronous call: the method, its position, and its locals.
NoOp == [kind |-> "none", pc |-> "none", idx |-> 0, manifest |-> NullManifest,
         dl |-> "none",
         tmpfile |-> NoPath, address |-> Undefined, size |-> NaN, hash |-> Undefined,
         info |-> NoInfo]

\* What an earlier run of the application left behind: nothing, or the info
\* file of an install attempt together with the update file it names.
LeftoverFile == PathJoin(DefaultDirectory, <<"p", "0">>)

Leftovers ==
    { [info |-> NoInfo, file |-> NoFile],
      [info |-> [kind |-> "json", currentVersion |-> <<1, 0, 0>>, updateVersion |-> <<1, 0, 1>>,
                 updateSize |-> 0, updateHash |-> "zz", updateFile |-> LeftoverFile],
       file |-> File(0, "zz")] }

AllPaths ==
    { PathJoin(d, TmpName(i)) : d \in {DefaultDirectory, OtherDirectory}, i \in OpIds }
        \cup { LeftoverFile }

Init ==
    /\ newVersion = NullManifest
    /\ downloadedFile = NoPath
    /\ autoInstall = TRUE
    /\ checking = FALSE
    /\ downloading = FALSE
    /\ directory = DefaultDirectory
    /\ exitHookInstalled = FALSE
    /\ restart = "undefined"
    /\ intervalId = 0
    /\ timers = {}
    /\ ops = [i \in OpIds |-> NoOp]
    /\ calls = 0
    /\ events = [i \in OpIds |-> << >>]
    /\ \E l \in Leftovers :
          /\ disk = [p \in AllPaths |-> IF p = LeftoverFile THEN l.file ELSE NoFile]
          /\ infoFile = l.info
    /\ infoWrites = << >>
    /\ hooks = 0
    /\ installs = << >>
    /\ electron = "unknown"
    /\ phase = "running"

\* -------------------------------------------------------------------------
\* Helpers of the controller
\* -------------------------------------------------------------------------

\* this.emit(...) in the checkForUpdates call id or in its _downloadUpdate
Emit(evs, id, e) == [evs EXCEPT ![id] = Append(@, e)]

SetOp(id, o) == [ops EXCEPT ![id] = o]

\* The locals of a call are gone once its last continuation has run; what is
\* kept is what the call did: the manifest its check got and how its
\* download ended.
Returned(o) ==
    [NoOp EXCEPT !.kind = o.kind, !.pc = o.pc, !.dl = o.dl, !.manifest = o.manifest]

CheckFirstOnly(idx, net) ==
    LET r == FetchManifest(manifestURLs[idx], net) IN
    IF r.ok
    THEN [state |-> "returned", manifest |-> r.val,
          found |-> r.val # NullManifest /\ SemverGt(r.val.version, currentVersion),
          err |-> NoErr]
    ELSE [state |-> "threw", manifest |-> NullManifest, found |-> FALSE,
          err |-> CheckError(Err(r.err, idx))]

\* One continuation of Updater._check(manifestURLIndex) after _fetchManifest
\* settled: "returned" (with the manifest and whether it is newer), "next"
\* (the recursive call for the next URL) or "threw".
Check(idx, net) ==
    LET r == FetchManifest(manifestURLs[idx], net) IN
    IF r.ok
    THEN [state |-> "returned", manifest |-> r.val,
          found |-> r.val # NullManifest /\ IsNewerVersionThan(r.val, currentVersion),
          err |-> NoErr]
    ELSE IF idx < Len(manifestURLs)
    THEN [state |-> "next", manifest |-> NullManifest, found |-> FALSE, err |-> Err(r.err, idx)]
    ELSE [state |-> "threw", manifest |-> NullManifest, found |-> FALSE,
          err |-> CheckError(Err(r.err, idx))]

DownloadGuardNoMutex(dlFlag, nv) ==
    IF nv = NullManifest THEN "NoUpdate"
    ELSE IF GetFile(nv) = Undefined \/ GetSize(nv) = NullNum \/ GetSha512(nv) = Undefined
    THEN "NoPlatformFile"
    ELSE "none"

\* The guards at the head of Updater._download: the error thrown, or "none".
DownloadGuard(dlFlag, nv) ==
    IF dlFlag THEN "DownloadInProgress"
    ELSE IF nv = NullManifest THEN "NoUpdate"
    ELSE IF GetFile(nv) = Undefined \/ GetSize(nv) = NullNum \/ GetSha512(nv) = Undefined
    THEN "NoPlatformFile"
    ELSE "none"

StartedElsewhere(o, id, nv) ==
    [o EXCEPT !.dl = "fetch",
              !.tmpfile = PathJoin(IF directory = DefaultDirectory THEN OtherDirectory
                                   ELSE DefaultDirectory, TmpName(id)),
              !.address = GetFile(nv), !.size = GetSize(nv), !.hash = GetSha512(nv)]

\* The locals of a started _download.
Started(o, id, nv) ==
    [o EXCEPT !.dl = "fetch", !.tmpfile = PathJoin(directory, TmpName(id)),
              !.address = GetFile(nv), !.size = GetSize(nv), !.hash = GetSha512(nv)]

\* JSON.stringify of the info object of _rememberInstallAttempt (NaN becomes
\* null, an undefined field is left out).
UpdateInfo(nv, file) ==
    [kind |-> "json", currentVersion |-> currentVersion, updateVersion |-> nv.version,
     updateSize |-> IF GetSize(nv) = NaN THEN NullNum ELSE GetSize(nv),
     updateHash |-> GetSha512(nv), updateFile |-> file]

\* A _setupExitHook that registers a hook on every call
HookAlways(installed) == TRUE

\* Whether the exit hook is to be registered by _setupExitHook.
HookNeeded(installed) == ~installed

\* The host quits (app.quit() or process.exit()): with h exit hooks and the
\* downloaded file, the installs made and the phase of the process afterwards.
\* In Electron (e = "yes") the hook cancels the quit; the installer then takes
\* over.  Elsewhere the hook runs on the exit of the process.
InstallsOnQuit(h, file, rs) ==
    IF file = NoPath THEN << >> ELSE [i \in 1 .. h |-> [file |-> file, restart |-> (rs = "true")]]

PhaseOnQuit(e, h, file) ==
    IF e = "yes" /\ h > 0
    THEN IF file = NoPath THEN "running" ELSE "installing"
    ELSE "exited"

\* -------------------------------------------------------------------------
\* Configuration after construction, before the first asynchronous call
\* -------------------------------------------------------------------------

\* No asynchronous call and no timer has been started yet.
Unused == timers = {} /\ \A id \in OpIds : ops[id].kind = "none"

SetDownloadsDirectory(d) ==
    /\ phase = "running" /\ calls < MaxCalls /\ Unused
    /\ calls' = calls + 1
    /\ directory' = d
    /\ UNCHANGED << newVersion, downloadedFile, autoInstall, checking, downloading,
                    exitHookInstalled, restart, intervalId, timers, ops, events,
                    disk, infoFile, infoWrites, hooks, installs, electron, phase >>

SetAutoInstall(b) ==
    /\ phase = "running" /\ calls < MaxCalls /\ Unused
    /\ calls' = calls + 1
    /\ autoInstall' = b
    /\ UNCHANGED << newVersion, downloadedFile, directory, checking, downloading,
                    exitHookInstalled, restart, intervalId, timers, ops, events,
                    disk, infoFile, infoWrites, hooks, installs, electron, phase >>

\* -------------------------------------------------------------------------
\* checkForUpdates and the periodic timer
\* -------------------------------------------------------------------------

StartCheckSilent(arg) ==
    LET id == calls + 1 IN
    /\ calls' = id
    /\ checking' = TRUE
    /\ ops' = SetOp(id, [NoOp EXCEPT !.kind = "check", !.pc = "fetch", !.idx = 1])
    /\ UNCHANGED << newVersion, downloadedFile, autoInstall, downloading, directory,
                    exitHookInstalled, restart, intervalId, timers, events, disk, infoFile,
                    infoWrites, hooks, installs, electron, phase >>

\* The synchronous head of checkForUpdates(manifestURLIndex) and of the
\* _check() it calls, which starts at index 0 whatever the argument.
StartCheck(arg) ==
    LET id == calls + 1 IN
    /\ calls' = id
    /\ checking' = TRUE
    /\ events' = Emit(events, id, Ev("checking-for-update", "check", NoPath, NullManifest, NoErr))
    /\ ops' = SetOp(id, [NoOp EXCEPT !.kind = "check", !.pc = "fetch", !.idx = 1])
    /\ UNCHANGED << newVersion, downloadedFile, autoInstall, downloading, directory,
                    exitHookInstalled, restart, intervalId, timers, disk, infoFile,
                    infoWrites, hooks, installs, electron, phase >>

CheckForUpdates(arg) ==
    /\ phase = "running" /\ calls < MaxCalls
    /\ StartCheck(arg)

\* A tick of the interval timer calls checkForUpdates().
Tick ==
    /\ phase = "running" /\ calls < MaxCalls
    /\ timers # {}
    /\ StartCheck(0)

\* A checkPeriodically that leaves the timer of an earlier call running
CheckPeriodicallyKeepTimer(interval) ==
    /\ phase = "running" /\ calls < MaxCalls
    /\ calls' = calls + 1
    /\ LET i1 == IF interval = 0 THEN DEFAULT_INTERVAL ELSE interval
           i2 == IF i1 < MIN_INTERVAL THEN MIN_INTERVAL ELSE i1
       IN /\ timers' = timers \cup { [id |-> calls + 1, period |-> i2] }
          /\ intervalId' = calls + 1
    /\ UNCHANGED << newVersion, downloadedFile, autoInstall, checking, downloading, directory,
                    exitHookInstalled, restart, ops, events, disk, infoFile, infoWrites,
                    hooks, installs, electron, phase >>

\* checkPeriodically(interval); interval 0 stands for an omitted interval.
CheckPeriodically(interval) ==
    /\ phase = "running" /\ calls < MaxCalls
    /\ calls' = calls + 1
    /\ LET cleared == IF intervalId # 0 THEN { t \in timers : t.id # intervalId } ELSE timers
           i1 == IF interval = 0 THEN DEFAULT_INTERVAL ELSE interval
           i2 == IF i1 < MIN_INTERVAL THEN MIN_INTERVAL ELSE i1
       IN /\ timers' = cleared \cup { [id |-> calls + 1, period |-> i2] }
          /\ intervalId' = calls + 1
    /\ UNCHANGED << newVersion, downloadedFile, autoInstall, checking, downloading, directory,
                    exitHookInstalled, restart, ops, events, disk, infoFile, infoWrites,
                    hooks, installs, electron, phase >>

StopCheckingPeriodically ==
    /\ phase = "running" /\ calls < MaxCalls
    /\ intervalId # 0
    /\ calls' = calls + 1
    /\ timers' = { t \in timers : t.id # intervalId }
    /\ UNCHANGED << newVersion, downloadedFile, autoInstall, checking, downloading, directory,
                    exitHookInstalled, restart, intervalId, ops, events, disk, infoFile,
                    infoWrites, hooks, installs, electron, phase >>

\* -------------------------------------------------------------------------
\* _download and its two callers' continuations
\* -------------------------------------------------------------------------

\* _rememberInstallAttempt() called while newVersion (nv) is null throws a
\* TypeError; otherwise the info is written to the info file.
CanRemember(nv) == nv # NullManifest

\* The catch block of quitAndRetryInstall: await _rememberInstallAttempt(),
\* with newVersion nv and downloadedFile file.
RetryCatch(id, o, nv, file) ==
    IF CanRemember(nv)
    THEN /\ ops' = SetOp(id, [Returned(o) EXCEPT !.pc = "remember", !.info = UpdateInfo(nv, file)])
         /\ infoWrites' = Append(infoWrites, UpdateInfo(nv, file))
    ELSE /\ ops' = SetOp(id, Returned([o EXCEPT !.pc = "rejected"]))
         /\ infoWrites' = infoWrites

\* quitAndInstall() up to its await: restart = true; _rememberInstallAttempt().
QuitAndInstallHead(id, o, nv, file) ==
    /\ restart' = "true"
    /\ IF CanRemember(nv)
       THEN /\ ops' = SetOp(id, [Returned(o) EXCEPT !.pc = "write", !.info = UpdateInfo(nv, file)])
            /\ infoWrites' = Append(infoWrites, UpdateInfo(nv, file))
       ELSE /\ ops' = SetOp(id, Returned([o EXCEPT !.pc = "rejected"]))
            /\ infoWrites' = infoWrites

\* A catch block that leaves the downloading flag as it is
DownloadFailedFlagKept(id, o, e) ==
    /\ downloading' = downloading
    /\ UNCHANGED << newVersion, downloadedFile, exitHookInstalled, hooks, restart >>
    /\ IF o.kind = "check"
       THEN /\ events' = Emit(events, id, Ev("error", "download", NoPath, NullManifest, Err(e, 0)))
            /\ ops' = SetOp(id, Returned([o EXCEPT !.dl = "failed"]))
            /\ infoWrites' = infoWrites
       ELSE /\ events' = events
            /\ RetryCatch(id, [o EXCEPT !.dl = "failed"], newVersion, downloadedFile)

\* The catch blocks after a failed _download: downloading is reset; then
\* _downloadUpdate emits 'error', quitAndRetryInstall records the attempt.
DownloadFailed(id, o, e) ==
    /\ downloading' = FALSE
    /\ UNCHANGED << newVersion, downloadedFile, exitHookInstalled, hooks, restart >>
    /\ IF o.kind = "check"
       THEN /\ events' = Emit(events, id, Ev("error", "download", NoPath, NullManifest, Err(e, 0)))
            /\ ops' = SetOp(id, Returned([o EXCEPT !.dl = "failed"]))
            /\ infoWrites' = infoWrites
       ELSE /\ events' = events
            /\ RetryCatch(id, [o EXCEPT !.dl = "failed"], newVersion, downloadedFile)

\* The end of a successful _download and what its caller does next.
DownloadSucceeded(id, o) ==
    /\ downloading' = FALSE
    /\ downloadedFile' = o.tmpfile
    /\ newVersion' = newVersion
    /\ IF autoInstall /\ HookNeeded(exitHookInstalled)
       THEN hooks' = hooks + 1 /\ exitHookInstalled' = TRUE
       ELSE UNCHANGED << hooks, exitHookInstalled >>
    /\ IF o.kind = "check"
       THEN /\ events' = Emit(events, id, Ev("update-downloaded", "download",
                                             downloadedFile', newVersion', NoErr))
            /\ ops' = SetOp(id, Returned([o EXCEPT !.dl = "ok"]))
            /\ UNCHANGED << infoWrites, restart >>
       ELSE /\ events' = events
            /\ QuitAndInstallHead(id, [o EXCEPT !.dl = "ok"], newVersion, o.tmpfile)

\* _createDownloadsDirectory() and fetchFile(address, tmpfile) settled: the
\* directory could not be made ("mkdir"), the request failed before a file
\* was made ("reject"), the stream failed and the partial file was unlinked
\* ("unlinked") or could not be unlinked ("partial"), or the file was written
\* ("written").  Nothing but this _download touches tmpfile or the directory
\* entry meanwhile, so the two awaits are one step.
FetchOutcomes == { "mkdir", "reject", "unlinked", "partial", "written" }

FetchError(outcome) == IF outcome = "mkdir" THEN "EACCES" ELSE "RequestFailed"

DownloadFetched(id, outcome, f) ==
    /\ phase = "running" /\ ops[id].dl = "fetch"
    /\ f \in Served(ops[id].address)
    /\ IF outcome = "written"
       THEN /\ disk' = [disk EXCEPT ![ops[id].tmpfile] = f]
            /\ ops' = SetOp(id, [ops[id] EXCEPT !.dl = "verify"])
            /\ UNCHANGED << newVersion, downloadedFile, downloading, exitHookInstalled,
                            hooks, restart, events, infoWrites >>
       ELSE /\ disk' = IF outcome = "partial"
                       THEN [disk EXCEPT ![ops[id].tmpfile] = PartialFile] ELSE disk
            /\ DownloadFailed(id, ops[id], FetchError(outcome))
    /\ UNCHANGED << autoInstall, checking, directory, intervalId, timers, calls,
                    infoFile, installs, electron, phase >>

VerifySizeOnly(size, hash, f) == VerifySize(size, f)

\* `await verifySize(size, tmpfile); await verifyHash(hash, tmpfile);` of
\* _download: the error thrown, or "none".
VerifyFile(size, hash, f) ==
    IF VerifySize(size, f) # "none" THEN VerifySize(size, f) ELSE VerifyHash(hash, f)

\* verifySize and verifyHash of the written tmpfile settled, and the rest of
\* _download and of its caller.
DownloadVerified(id) ==
    /\ phase = "running" /\ ops[id].dl = "verify"
    /\ LET e == VerifyFile(ops[id].size, ops[id].hash, disk[ops[id].tmpfile]) IN
       IF e = "none"
       THEN DownloadSucceeded(id, ops[id])
       ELSE DownloadFailed(id, ops[id], e)
    /\ UNCHANGED << autoInstall, checking, directory, intervalId, timers, calls, disk,
                    infoFile, installs, electron, phase >>

\* -------------------------------------------------------------------------
\* A check's manifest fetch settles
\* -------------------------------------------------------------------------

\* _fetchManifest settled for a checkForUpdates call: the rest of _check and
\* of checkForUpdates, and the head of the _downloadUpdate() it may start.
CheckFetched(id, net) ==
    /\ phase = "running" /\ ops[id].kind = "check" /\ ops[id].pc = "fetch"
    /\ LET o == ops[id]
           c == Check(o.idx, net)
           done == Returned([o EXCEPT !.pc = "done", !.manifest = c.manifest])
           g == DownloadGuard(downloading, c.manifest)
       IN
       CASE c.state = "next" ->
              /\ ops' = SetOp(id, [o EXCEPT !.idx = o.idx + 1])
              /\ checking' = TRUE
              /\ UNCHANGED << newVersion, downloading, events >>
         [] c.state = "threw" ->
              /\ ops' = SetOp(id, done)
              /\ checking' = FALSE
              /\ events' = Emit(events, id, Ev("error", "check", NoPath, NullManifest, c.err))
              /\ UNCHANGED << newVersion, downloading >>
         [] c.state = "returned" /\ ~c.found ->
              /\ ops' = SetOp(id, done)
              /\ checking' = FALSE
              /\ events' = Emit(events, id, Ev("update-not-available", "check", NoPath,
                                           NullManifest, NoErr))
              /\ UNCHANGED << newVersion, downloading >>
         [] c.state = "returned" /\ c.found ->
              /\ checking' = FALSE
              /\ newVersion' = c.manifest
              /\ LET avail == Emit(events, id, Ev("update-available", "check", NoPath,
                                              c.manifest, NoErr))
                 IN
                 IF downloading \/ downloadedFile # NoPath
                 THEN /\ events' = avail
                      /\ ops' = SetOp(id, done)
                      /\ downloading' = downloading
                 ELSE IF g # "none"
                 THEN /\ events' = Emit(avail, id, Ev("error", "download", NoPath,
                                                  NullManifest, Err(g, 0)))
                      /\ ops' = SetOp(id, [done EXCEPT !.dl = g])
                      /\ downloading' = downloading
                 ELSE /\ events' = avail
                      /\ ops' = SetOp(id, Started(done, id, c.manifest))
                      /\ downloading' = TRUE
    /\ UNCHANGED << downloadedFile, autoInstall, directory, exitHookInstalled, restart,
                    intervalId, timers, calls, disk, infoFile, infoWrites, hooks, installs,
                    electron, phase >>

\* -------------------------------------------------------------------------
\* The info file
\* -------------------------------------------------------------------------

FileAt(p) == IF p \in DOMAIN disk THEN disk[p] ELSE NoFile

\* _readUpdateInfoFile(): rejects unless the file can be read, parses as JSON,
\* is not null and has a truthy currentVersion.
ReadUpdateInfoFile(f) ==
    IF f.kind # "json" THEN [ok |-> FALSE, info |-> NoInfo]
    ELSE IF f.currentVersion = BadVersion THEN [ok |-> FALSE, info |-> NoInfo]
    ELSE [ok |-> TRUE, info |-> f]

\* The test `!info || info.updateSize || !info.updateHash || !info.updateFile`
\* of _getValidUpdateFileOnDisk
InvalidUpdateInfo(info) ==
    \/ info.updateSize \notin {0, NullNum}
    \/ info.updateHash = Undefined
    \/ info.updateFile = NoPath

\* -------------------------------------------------------------------------
\* scheduleInstallOnQuit, quitAndInstall, quitAndRetryInstall, quitting
\* -------------------------------------------------------------------------

ScheduleInstallOnQuit ==
    /\ phase = "running" /\ calls < MaxCalls
    /\ calls' = calls + 1
    /\ restart' = "false"
    /\ IF newVersion # NullManifest
       THEN /\ ops' = SetOp(calls + 1, [NoOp EXCEPT !.kind = "schedule", !.pc = "write",
                                   !.info = UpdateInfo(newVersion, downloadedFile)])
            /\ infoWrites' = Append(infoWrites, UpdateInfo(newVersion, downloadedFile))
       ELSE /\ ops' = SetOp(calls + 1, [NoOp EXCEPT !.kind = "schedule", !.pc = "rejected"])
            /\ infoWrites' = infoWrites
    /\ UNCHANGED << newVersion, downloadedFile, autoInstall, checking, downloading, directory,
                    exitHookInstalled, intervalId, timers, events, disk, infoFile, hooks,
                    installs, electron, phase >>

QuitAndInstall ==
    /\ phase = "running" /\ calls < MaxCalls
    /\ calls' = calls + 1
    /\ UNCHANGED << newVersion, downloadedFile >>
    /\ QuitAndInstallHead(calls + 1, [NoOp EXCEPT !.kind = "quitAndInstall"],
                          newVersion, downloadedFile)
    /\ UNCHANGED << autoInstall, checking, downloading, directory, exitHookInstalled,
                    intervalId, timers, events, disk, infoFile, hooks, installs, electron,
                    phase >>

\* What process.versions.electron can be, given what the run has seen of it.
Platform == IF electron = "unknown" THEN {"yes", "no"} ELSE {electron}

\* It matters to the rest of the run only if the run goes on.
Seen(e, ph) == IF ph = "running" THEN e ELSE electron

\* fs.writeFile of _rememberInstallAttempt settled (a failed write is only
\* logged), and what the caller does after its await:
\*   scheduleInstallOnQuit arms the exit hook;
\*   quitAndInstall arms the exit hook and quits;
\*   the catch block of quitAndRetryInstall relaunches and quits.
WriteDone(id, ok) ==
    /\ phase = "running" /\ ops[id].pc \in {"write", "remember"}
    /\ infoFile' = IF ok THEN ops[id].info ELSE infoFile
    /\ ops' = SetOp(id, Returned([ops[id] EXCEPT !.pc = "done"]))
    /\ LET arm == ops[id].pc = "write" /\ HookNeeded(exitHookInstalled)
           h == IF arm THEN hooks + 1 ELSE hooks
           quit == ~(ops[id].kind = "schedule")
       IN /\ exitHookInstalled' = (exitHookInstalled \/ ops[id].pc = "write")
          /\ IF quit
             THEN /\ installs' = installs \o InstallsOnQuit(h, downloadedFile, restart)
                  /\ \E e \in Platform :
                        /\ phase' = PhaseOnQuit(e, h, downloadedFile)
                        /\ electron' = Seen(e, phase')
                        /\ hooks' = IF e = "yes" THEN 0 ELSE h
             ELSE /\ hooks' = h
                  /\ UNCHANGED << installs, phase, electron >>
    /\ UNCHANGED << newVersion, downloadedFile, autoInstall, checking, downloading, directory,
                    restart, intervalId, timers, calls, events, disk, infoWrites >>

\* The user quits the host application.
HostQuit ==
    /\ phase = "running" /\ calls < MaxCalls
    /\ calls' = calls + 1
    /\ installs' = installs \o InstallsOnQuit(hooks, downloadedFile, restart)
    /\ \E e \in Platform :
          /\ phase' = PhaseOnQuit(e, hooks, downloadedFile)
          /\ electron' = Seen(e, phase')
          /\ hooks' = IF e = "yes" THEN 0 ELSE hooks
    /\ UNCHANGED << newVersion, downloadedFile, autoInstall, checking, downloading, directory,
                    exitHookInstalled, restart, intervalId, timers, ops, events, disk,
                    infoFile, infoWrites >>

\* quitAndRetryInstall(): the call, up to the first await of
\* _getValidUpdateFileOnDisk().
QuitAndRetryInstall ==
    /\ phase = "running" /\ calls < MaxCalls
    /\ calls' = calls + 1
    /\ ops' = SetOp(calls + 1, [NoOp EXCEPT !.kind = "retry", !.pc = "local_read"])
    /\ UNCHANGED << newVersion, downloadedFile, autoInstall, checking, downloading, directory,
                    exitHookInstalled, restart, intervalId, timers, events, disk, infoFile,
                    infoWrites, hooks, installs, electron, phase >>

\* The head of the _check() that quitAndRetryInstall falls back to.
RetryStartCheck(id, o) ==
    /\ ops' = SetOp(id, [o EXCEPT !.pc = "fetch", !.idx = 1])
    /\ checking' = TRUE

\* _getValidUpdateFileOnDisk: _readUpdateInfoFile() settled.
RetryReadInfo(id) ==
    /\ phase = "running" /\ ops[id].kind = "retry" /\ ops[id].pc = "local_read"
    /\ LET r == ReadUpdateInfoFile(infoFile) IN
       IF r.ok /\ ~InvalidUpdateInfo(r.info)
       THEN /\ ops' = SetOp(id, [ops[id] EXCEPT !.pc = "local_size", !.info = r.info])
            /\ checking' = checking
       ELSE RetryStartCheck(id, ops[id])
    /\ UNCHANGED << newVersion, downloadedFile, autoInstall, downloading, directory,
                    exitHookInstalled, restart, intervalId, timers, calls, events, disk,
                    infoFile, infoWrites, hooks, installs, electron, phase >>

\* _getValidUpdateFileOnDisk: verifySize(info.updateSize, info.updateFile) settled.
RetryLocalSized(id) ==
    /\ phase = "running" /\ ops[id].kind = "retry" /\ ops[id].pc = "local_size"
    /\ LET info == ops[id].info IN
       IF VerifySize(info.updateSize, FileAt(info.updateFile)) = "none"
       THEN /\ ops' = SetOp(id, [ops[id] EXCEPT !.pc = "local_hash"])
            /\ checking' = checking
       ELSE RetryStartCheck(id, ops[id])
    /\ UNCHANGED << newVersion, downloadedFile, autoInstall, downloading, directory,
                    exitHookInstalled, restart, intervalId, timers, calls, events, disk,
                    infoFile, infoWrites, hooks, installs, electron, phase >>

\* _getValidUpdateFileOnDisk: verifyHash(info.updateHash, info.updateFile)
\* settled; then the directory test, and quitAndInstall() with the local file.
RetryLocalHashed(id) ==
    /\ phase = "running" /\ ops[id].kind = "retry" /\ ops[id].pc = "local_hash"
    /\ LET info == ops[id].info IN
       IF /\ VerifyHash(info.updateHash, FileAt(info.updateFile)) = "none"
          /\ StartsWith(info.updateFile, directory)
       THEN /\ downloadedFile' = info.updateFile
            /\ newVersion' = newVersion
            /\ QuitAndInstallHead(id, ops[id], newVersion, info.updateFile)
            /\ checking' = checking
       ELSE /\ RetryStartCheck(id, ops[id])
            /\ UNCHANGED << newVersion, downloadedFile, restart, infoWrites >>
    /\ UNCHANGED << autoInstall, downloading, directory, exitHookInstalled, intervalId,
                    timers, calls, events, disk, infoFile, hooks, installs, electron, phase >>

\* _fetchManifest settled for the _check() of quitAndRetryInstall: the rest of
\* _check, then `throw new Error('No update found')` or the head of _download().
RetryFetched(id, net) ==
    /\ phase = "running" /\ ops[id].kind = "retry" /\ ops[id].pc = "fetch"
    /\ LET o == ops[id]
           c == Check(o.idx, net)
           g == DownloadGuard(downloading, c.manifest)
           got == [o EXCEPT !.manifest = c.manifest]
       IN
       CASE c.state = "next" ->
              /\ ops' = SetOp(id, [o EXCEPT !.idx = o.idx + 1])
              /\ checking' = TRUE
              /\ UNCHANGED << newVersion, downloading, infoWrites >>
         [] c.state = "threw" \/ (c.state = "returned" /\ ~c.found) ->
              /\ checking' = FALSE
              /\ UNCHANGED << newVersion, downloading >>
              /\ RetryCatch(id, got, newVersion, downloadedFile)
         [] c.state = "returned" /\ c.found ->
              /\ checking' = FALSE
              /\ newVersion' = c.manifest
              /\ IF g # "none"
                 THEN /\ downloading' = downloading
                      /\ RetryCatch(id, [got EXCEPT !.dl = g], c.manifest,
                                    downloadedFile)
                 ELSE /\ downloading' = TRUE
                      /\ ops' = SetOp(id, Started([got EXCEPT !.pc = "download"], id, c.manifest))
                      /\ infoWrites' = infoWrites
    /\ UNCHANGED << downloadedFile, autoInstall, directory, exitHookInstalled, restart,
                    intervalId, timers, calls, events, disk, infoFile, hooks, installs,
                    electron, phase >>

\* this.manifestURLs[manifestURLIndex] of the _check of call id
Address(id) ==
    IF ops[id].idx \in DOMAIN manifestURLs THEN manifestURLs[ops[id].idx] ELSE Undefined

\* -------------------------------------------------------------------------
\* didLastUpdateFail
\* -------------------------------------------------------------------------

\* didLastUpdateFail(): the call, up to the readFile of _readUpdateInfoFile.
DidLastUpdateFail ==
    /\ phase = "running" /\ calls < MaxCalls
    /\ calls' = calls + 1
    /\ ops' = SetOp(calls + 1, [NoOp EXCEPT !.kind = "didLastUpdateFail", !.pc = "read"])
    /\ UNCHANGED << newVersion, downloadedFile, autoInstall, checking, downloading, directory,
                    exitHookInstalled, restart, intervalId, timers, events, disk, infoFile,
                    infoWrites, hooks, installs, electron, phase >>

LastUpdateFailedAnyVersion(r) == r.ok

\* The .then and .catch handlers of didLastUpdateFail on the result r of
\* _readUpdateInfoFile: the value the promise resolves to.
LastUpdateFailed(r) == r.ok /\ r.info.currentVersion = currentVersion

\* The readFile settled: the promise of didLastUpdateFail resolves.
DidLastUpdateFailRead(id) ==
    /\ phase = "running" /\ ops[id].kind = "didLastUpdateFail" /\ ops[id].pc = "read"
    /\ ops' = SetOp(id, [ops[id] EXCEPT !.pc =
                  IF LastUpdateFailed(ReadUpdateInfoFile(infoFile))
                  THEN "resolved_true" ELSE "resolved_false"])
    /\ UNCHANGED << newVersion, downloadedFile, autoInstall, checking, downloading, directory,
                    exitHookInstalled, restart, intervalId, timers, calls, events, disk,
                    infoFile, infoWrites, hooks, installs, electron, phase >>

\* What the info file can hold when the application starts: it is missing,
\* cannot be read, is not JSON, is the JSON value null, or is a JSON object
\* whose fields may each be absent.
InfoContents ==
    { [NoInfo EXCEPT !.kind = k] : k \in {"missing", "unreadable", "notjson", "null"} }
        \cup
    { [kind |-> "json", currentVersion |-> cv, updateVersion |-> uv, updateSize |-> sz,
       updateHash |-> h, updateFile |-> f] :
         cv \in Versions \cup {BadVersion}, uv \in {BadVersion, <<1, 0, 0>>, <<1, 0, 1>>},
         sz \in {NullNum, 0, 1}, h \in {Undefined, "aa"}, f \in {NoPath, LeftoverFile} }

InitInfo ==
    /\ newVersion = NullManifest
    /\ downloadedFile = NoPath
    /\ autoInstall = TRUE
    /\ checking = FALSE
    /\ downloading = FALSE
    /\ directory = DefaultDirectory
    /\ exitHookInstalled = FALSE
    /\ restart = "undefined"
    /\ intervalId = 0
    /\ timers = {}
    /\ ops = [i \in OpIds |-> NoOp]
    /\ calls = 0
    /\ events = [i \in OpIds |-> << >>]
    /\ disk = [p \in AllPaths |-> NoFile]
    /\ infoFile \in InfoContents
    /\ infoWrites = << >>
    /\ hooks = 0
    /\ installs = << >>
    /\ electron = "unknown"
    /\ phase = "running"

NextInfo ==
    \/ DidLastUpdateFail
    \/ \E id \in OpIds : DidLastUpdateFailRead(id)

\* The application has just started and asks whether the last update failed.
SpecInfo == InitInfo /\ [][NextInfo]_vars

\* -------------------------------------------------------------------------
\* cleanup
\* -------------------------------------------------------------------------

\* Update files an earlier run may have recorded: one in the default downloads
\* directory, one in a sibling directory whose path begins with the same
\* characters, one in the other directory.
SiblingDirectory == DefaultDirectory \o <<"2">>
SiblingFile == PathJoin(SiblingDirectory, <<"p", "0">>)
OtherFile == PathJoin(OtherDirectory, <<"p", "0">>)
CleanupFiles == { LeftoverFile, SiblingFile, OtherFile }

\* cleanup(): the call, up to the readFile of _readUpdateInfoFile.
Cleanup ==
    /\ phase = "running" /\ calls < MaxCalls
    /\ calls' = calls + 1
    /\ ops' = SetOp(calls + 1, [NoOp EXCEPT !.kind = "cleanup", !.pc = "read"])
    /\ UNCHANGED << newVersion, downloadedFile, autoInstall, checking, downloading, directory,
                    exitHookInstalled, restart, intervalId, timers, events, disk, infoFile,
                    infoWrites, hooks, installs, electron, phase >>

\* The test `info.updateFile.startsWith(this._directory)` of cleanup
CleanupTest(file, dir) == StartsWith(file, dir)

\* _readUpdateInfoFile settled in cleanup: return if it rejected; otherwise
\* the directory test, which throws a TypeError caught by cleanup when
\* updateFile is missing, and the first deleteFile.  The call keeps the info
\* it read; dl tells how the call ended.
CleanupRead(id) ==
    /\ phase = "running" /\ ops[id].kind = "cleanup" /\ ops[id].pc = "read"
    /\ LET r == ReadUpdateInfoFile(infoFile)
           o == [ops[id] EXCEPT !.info = r.info]
       IN ops' = SetOp(id,
             IF ~r.ok THEN [o EXCEPT !.pc = "done", !.dl = "unreadable"]
             ELSE IF r.info.updateFile = NoPath THEN [o EXCEPT !.pc = "done", !.dl = "TypeError"]
             ELSE IF CleanupTest(r.info.updateFile, directory)
                  THEN [o EXCEPT !.pc = "unlink_file"]
                  ELSE [o EXCEPT !.pc = "unlink_info"])
    /\ UNCHANGED << newVersion, downloadedFile, autoInstall, checking, downloading, directory,
                    exitHookInstalled, restart, intervalId, timers, calls, events, disk,
                    infoFile, infoWrites, hooks, installs, electron, phase >>

\* What cleanup does after deleteFile(info.updateFile) settled: a rejection
\* is caught by the catch block that ends cleanup.
CleanupAfterFile(o, ok) ==
    IF ok THEN [o EXCEPT !.pc = "unlink_info"]
    ELSE [o EXCEPT !.pc = "done", !.dl = "file_failed"]

\* deleteFile(info.updateFile) settled: fs.unlink removed the file (ok) or
\* failed, as it must when there is no such file.
CleanupFileDeleted(id, ok) ==
    /\ phase = "running" /\ ops[id].kind = "cleanup" /\ ops[id].pc = "unlink_file"
    /\ ok => FileAt(ops[id].info.updateFile).exists
    /\ disk' = IF ok THEN [disk EXCEPT ![ops[id].info.updateFile] = NoFile] ELSE disk
    /\ ops' = SetOp(id, CleanupAfterFile(ops[id], ok))
    /\ UNCHANGED << newVersion, downloadedFile, autoInstall, checking, downloading, directory,
                    exitHookInstalled, restart, intervalId, timers, calls, events,
                    infoFile, infoWrites, hooks, installs, electron, phase >>

\* deleteFile(<info file>) settled: removed (ok) or failed, as it must when
\* the info file is gone already; either way cleanup returns.
CleanupInfoDeleted(id, ok) ==
    /\ phase = "running" /\ ops[id].kind = "cleanup" /\ ops[id].pc = "unlink_info"
    /\ ok => infoFile.kind # "missing"
    /\ infoFile' = IF ok THEN NoInfo ELSE infoFile
    /\ ops' = SetOp(id, [ops[id] EXCEPT !.pc = "done",
                                        !.dl = IF ok THEN "ok" ELSE "info_failed"])
    /\ UNCHANGED << newVersion, downloadedFile, autoInstall, checking, downloading, directory,
                    exitHookInstalled, restart, intervalId, timers, calls, events, disk,
                    infoWrites, hooks, installs, electron, phase >>

\* What the application finds when it starts: any info file, and any of the
\* recorded update files present or not.
InitCleanup ==
    /\ newVersion = NullManifest
    /\ downloadedFile = NoPath
    /\ autoInstall = TRUE
    /\ checking = FALSE
    /\ downloading = FALSE
    /\ directory = DefaultDirectory
    /\ exitHookInstalled = FALSE
    /\ restart = "undefined"
    /\ intervalId = 0
    /\ timers = {}
    /\ ops = [i \in OpIds |-> NoOp]
    /\ calls = 0
    /\ events = [i \in OpIds |-> << >>]
    /\ \E present \in SUBSET CleanupFiles :
          disk = [p \in CleanupFiles |-> IF p \in present THEN File(1, "aa") ELSE NoFile]
    /\ \E k \in {"missing", "notjson", "json"}, cv \in {BadVersion, <<1, 0, 0>>},
          f \in CleanupFiles \cup {NoPath} :
          infoFile = IF k = "json"
                     THEN [kind |-> "json", currentVersion |-> cv, updateVersion |-> <<1, 0, 1>>,
                           updateSize |-> 1, updateHash |-> "aa", updateFile |-> f]
                     ELSE [NoInfo EXCEPT !.kind = k]
    /\ infoWrites = << >>
    /\ hooks = 0
    /\ installs = << >>
    /\ electron = "unknown"
    /\ phase = "running"

NextCleanup ==
    \/ \E d \in {DefaultDirectory, OtherDirectory} : SetDownloadsDirectory(d)
    \/ Cleanup
    \/ \E id \in OpIds : CleanupRead(id)
    \/ \E id \in OpIds, ok \in BOOLEAN : CleanupFileDeleted(id, ok)
    \/ \E id \in OpIds, ok \in BOOLEAN : CleanupInfoDeleted(id, ok)

\* The application has just started and removes what the last update left.
SpecCleanup == InitCleanup /\ [][NextCleanup]_vars

\* -------------------------------------------------------------------------
\* quitAndRetryInstall after a restart
\* -------------------------------------------------------------------------

\* What an earlier install attempt may have left: an info file whose fields
\* may be absent, and the update file it names, missing, intact or damaged.
RetryInfos ==
    { [kind |-> "json", currentVersion |-> <<1, 0, 0>>, updateVersion |-> <<1, 0, 1>>,
       updateSize |-> sz, updateHash |-> h, updateFile |-> f] :
         sz \in {NullNum, 0, 1}, h \in {Undefined, "aa"}, f \in {NoPath, LeftoverFile} }

RetryFiles == { NoFile, File(1, "aa"), File(0, "aa"), File(1, "cc") }

InitRetry ==
    /\ newVersion = NullManifest
    /\ downloadedFile = NoPath
    /\ autoInstall = TRUE
    /\ checking = FALSE
    /\ downloading = FALSE
    /\ directory = DefaultDirectory
    /\ exitHookInstalled = FALSE
    /\ restart = "undefined"
    /\ intervalId = 0
    /\ timers = {}
    /\ ops = [i \in OpIds |-> NoOp]
    /\ calls = 0
    /\ events = [i \in OpIds |-> << >>]
    /\ \E f \in RetryFiles : disk = [p \in AllPaths |-> IF p = LeftoverFile THEN f ELSE NoFile]
    /\ infoFile \in RetryInfos
    /\ infoWrites = << >>
    /\ hooks = 0
    /\ installs = << >>
    /\ electron = "unknown"
    /\ phase = "running"

NextRetry ==
    \/ QuitAndRetryInstall
    \/ \E id \in OpIds : RetryReadInfo(id)
    \/ \E id \in OpIds : RetryLocalSized(id)
    \/ \E id \in OpIds : RetryLocalHashed(id)
    \/ \E id \in OpIds : \E net \in NetsFor(Address(id)) : RetryFetched(id, net)
    \/ \E id \in OpIds, f \in Served("https://f/a") \cup Served("https://f/b") :
          \E outcome \in FetchOutcomes : DownloadFetched(id, outcome, f)
    \/ \E id \in OpIds : DownloadVerified(id)
    \/ \E id \in OpIds, ok \in BOOLEAN : WriteDone(id, ok)

\* The application was restarted after an install attempt and retries it.
SpecRetry == InitRetry /\ [][NextRetry]_vars

\* -------------------------------------------------------------------------
\* The fetcher: get
\* -------------------------------------------------------------------------

MAX_RETRIES == 3
MAX_REDIRECTS == 10

\* A URL is its scheme and its host; the path plays no part in what get does.
Url(s, h) == [scheme |-> s, host |-> h]

\* The addresses get is called with. Nothing in get looks at the scheme of
\* the address it is given: the request is made with https.get(host, path).
Addresses == { Url("https", "a"), Url("http", "a") }

\* Location header values: absolute with a lower-case or an upper-case
\* scheme, of another scheme, or relative (scheme "").
Locations ==
    { Url("https", "a"), Url("https", "b"), Url("http", "b"),
      Url("HTTPS", "b"), Url("ftp", "b"), Url("", "") }

\* url.resolve(address, location): a relative reference takes scheme and
\* host of the address, an absolute one is returned with its scheme in
\* lower case.
UrlResolve(address, location) ==
    IF location.scheme = "" THEN address
    ELSE IF location.scheme = "HTTPS" THEN Url("https", location.host)
    ELSE location

\* let location = res.headers['location'];
\* if (!/^https?:/.test(location)) location = url.resolve(address, location);
Target(address, location) ==
    IF location.scheme \in {"https", "http"} THEN location
    ELSE UrlResolve(address, location)

\* A test that lets http: pass as well.
StartsWithHttp(location) == location.scheme \in {"https", "http"}

\* location.startsWith('https:')
StartsWithHttps(location) == location.scheme = "https"

\* Responses to one request: a status with its Location header (NoLocation
\* when there is none) and whether the content type is the expected one.
NoLocation == Url("none", "")

Response(status, location, typed) ==
    [status |-> status, location |-> location, typed |-> typed]

Responses ==
    { Response(200, NoLocation, t) : t \in BOOLEAN }
        \cup { Response(s, NoLocation, TRUE) : s \in {204, 302, 404, 503} }
        \cup { Response(302, l, TRUE) : l \in Locations }
        \cup { Response(404, Url("https", "b"), TRUE) }

\* One call of get by a caller, with the requests it leads to. pc is
\* "request" while a request is in flight, "backoff" while waitBeforeRetry
\* runs, "fulfilled" or "rejected" once the promise handed to the caller has
\* settled. address, redirs and tries are the arguments of the innermost
\* call of get. aborted is the try number of a request that the timeout
\* handler aborted and for which the runtime has not yet emitted 'error'
\* (-1 if there is none). orphans counts, per try number, the chains
\* get(address, contentType, 0, tries + 1) that were started by a second call
\* of handleError for one request and wait in waitBeforeRetry; what they
\* resolve to is dropped, since the promise of that request has settled.
\* History: last is the response handled last, followed the number of
\* redirects followed, attempts the number of requests made that are not
\* redirect hops, unsafe whether a request was made to a redirect target that
\* is not https. late tells that the socket of the request whose response
\* was delivered to the caller has timed out since.
GetOp(address) ==
    [kind |-> "get", pc |-> "request", address |-> address, redirs |-> 0, tries |-> 0,
     err |-> "none", aborted |-> -1, orphans |-> [t \in 1 .. MAX_RETRIES |-> 0],
     last |-> Response(0, NoLocation, TRUE), followed |-> 0, attempts |-> 1,
     unsafe |-> FALSE, late |-> FALSE]

\* Counters of the history stop one above the limit they are compared to.
Count(n, limit) == IF n > limit THEN n ELSE n + 1

FetchFrame ==
    UNCHANGED << newVersion, downloadedFile, autoInstall, checking, downloading, directory,
                 exitHookInstalled, restart, intervalId, timers, events, disk,
                 infoFile, infoWrites, hooks, installs, electron, phase >>

\* get(address, contentType): the request is made at once.
Get(address) ==
    /\ calls = 0
    /\ calls' = calls + 1
    /\ ops' = SetOp(1, GetOp(address))
    /\ FetchFrame

\* reject(new Error(...))
Rejected(o, err) == [o EXCEPT !.pc = "rejected", !.err = err]

\* if (tries < MAX_RETRIES) fulfill(waitBeforeRetry(tries).then(...))
\* else reject(new Error('Request failed ...'))
RetryOrFail(o) ==
    IF o.tries < MAX_RETRIES THEN [o EXCEPT !.pc = "backoff"]
    ELSE Rejected(o, "RequestFailed")

\* A redirect branch that lets one more redirect pass
RedirectOneMore(o, location) ==
    IF o.redirs > MAX_REDIRECTS THEN Rejected(o, "TooManyRedirects")
    ELSE LET target == Target(o.address, location)
         IN IF ~StartsWithHttps(target) THEN Rejected(o, "UnsafeRedirect")
            ELSE [o EXCEPT !.address = target, !.redirs = o.redirs + 1,
                           !.followed = Count(o.followed, MAX_REDIRECTS),
                           !.unsafe = o.unsafe \/ target.scheme # "https"]

\* The redirect branch of the response callback.
Redirect(o, location) ==
    IF o.redirs >= MAX_REDIRECTS THEN Rejected(o, "TooManyRedirects")
    ELSE LET target == Target(o.address, location)
         IN IF ~StartsWithHttps(target) THEN Rejected(o, "UnsafeRedirect")
            ELSE [o EXCEPT !.address = target, !.redirs = o.redirs + 1,
                           !.followed = Count(o.followed, MAX_REDIRECTS),
                           !.unsafe = o.unsafe \/ target.scheme # "https"]

\* A response callback that treats 404 like any other status that is not 200
OnResponseRetryNotFound(o, res) ==
    IF res.status >= 300 /\ res.status < 400 /\ res.location # NoLocation
    THEN Redirect(o, res.location)
    ELSE IF res.status # 200 THEN RetryOrFail(o)
    ELSE IF ~res.typed THEN Rejected(o, "UnexpectedContentType")
    ELSE [o EXCEPT !.pc = "fulfilled"]

\* The response callback of https.get.
OnResponse(o, res) ==
    IF res.status = 404 THEN Rejected(o, "NotFound")
    ELSE IF res.status >= 300 /\ res.status < 400 /\ res.location # NoLocation
         THEN Redirect(o, res.location)
    ELSE IF res.status # 200 THEN RetryOrFail(o)
    ELSE IF ~res.typed THEN Rejected(o, "UnexpectedContentType")
    ELSE [o EXCEPT !.pc = "fulfilled"]

\* The request in flight got a response.
GetResponse(id, res) ==
    /\ ops[id].kind = "get" /\ ops[id].pc = "request"
    /\ ops' = SetOp(id, OnResponse([ops[id] EXCEPT !.last = res], res))
    /\ UNCHANGED calls
    /\ FetchFrame

\* req.on('error', handleError) for the request in flight.
GetError(id) ==
    /\ ops[id].kind = "get" /\ ops[id].pc = "request"
    /\ ops' = SetOp(id, RetryOrFail([ops[id] EXCEPT !.last = Response(-1, NoLocation, TRUE)]))
    /\ UNCHANGED calls
    /\ FetchFrame

\* req.on('timeout', ...): the request in flight is aborted and handleError
\* is called.
GetTimeout(id) ==
    /\ ops[id].kind = "get" /\ ops[id].pc = "request"
    /\ ops' = SetOp(id, RetryOrFail([ops[id] EXCEPT !.last = Response(-2, NoLocation, TRUE),
                                                    !.aborted = ops[id].tries]))
    /\ UNCHANGED calls
    /\ FetchFrame

\* The runtime emits 'error' for a request that was aborted before it got a
\* response: handleError runs a second time for that request. Its promise
\* has settled, so fulfill and reject do nothing, but waitBeforeRetry and
\* the call of get in its continuation are made all the same.
GetAbortError(id) ==
    /\ ops[id].kind = "get" /\ ops[id].aborted >= 0
    /\ LET t == ops[id].aborted
           o == [ops[id] EXCEPT !.aborted = -1]
       IN ops' = SetOp(id,
             IF t < MAX_RETRIES
             THEN [o EXCEPT !.orphans[t + 1] = o.orphans[t + 1] + 1]
             ELSE o)
    /\ UNCHANGED calls
    /\ FetchFrame

\* req.on('timeout', ...) after the response was delivered to the caller,
\* while its body is read: the request is aborted and handleError is called.
\* The promise has settled, so fulfill does nothing, but waitBeforeRetry and
\* the call of get in its continuation are made all the same.
GetLateTimeout(id) ==
    /\ ops[id].kind = "get" /\ ops[id].pc = "fulfilled" /\ ~ops[id].late
    /\ LET t == ops[id].tries
           o == [ops[id] EXCEPT !.late = TRUE]
       IN ops' = SetOp(id,
             IF t < MAX_RETRIES
             THEN [o EXCEPT !.orphans[t + 1] = o.orphans[t + 1] + 1]
             ELSE o)
    /\ UNCHANGED calls
    /\ FetchFrame

\* waitBeforeRetry(tries) is over: get(address, contentType, 0, tries + 1)
\* makes the next request.
GetRetry(id) ==
    /\ ops[id].kind = "get" /\ ops[id].pc = "backoff"
    /\ ops' = SetOp(id, [ops[id] EXCEPT !.pc = "request", !.redirs = 0,
                                        !.tries = ops[id].tries + 1,
                                        !.attempts = Count(ops[id].attempts, MAX_RETRIES + 1)])
    /\ UNCHANGED calls
    /\ FetchFrame

\* The wait of a chain nobody waits for is over: it makes its request with
\* try number t, and the request ends: the chain is over ("settled"),
\* handleError or the status branch ran once ("retry"), or the request timed
\* out and handleError ran twice ("retry twice").
GetOrphanRetry(id, t, outcome) ==
    /\ ops[id].kind = "get" /\ ops[id].orphans[t] > 0
    /\ LET o == [ops[id] EXCEPT !.orphans[t] = ops[id].orphans[t] - 1,
                                !.attempts = Count(ops[id].attempts, MAX_RETRIES + 1)]
           n == IF outcome = "retry" THEN 1 ELSE IF outcome = "retry twice" THEN 2 ELSE 0
       IN ops' = SetOp(id,
             IF t < MAX_RETRIES /\ n > 0
             THEN [o EXCEPT !.orphans[t + 1] = o.orphans[t + 1] + n]
             ELSE o)
    /\ UNCHANGED calls
    /\ FetchFrame

InitGet ==
    /\ newVersion = NullManifest
    /\ downloadedFile = NoPath
    /\ autoInstall = TRUE
    /\ checking = FALSE
    /\ downloading = FALSE
    /\ directory = DefaultDirectory
    /\ exitHookInstalled = FALSE
    /\ restart = "undefined"
    /\ intervalId = 0
    /\ timers = {}
    /\ ops = [i \in OpIds |-> NoOp]
    /\ calls = 0
    /\ events = [i \in OpIds |-> << >>]
    /\ disk = [p \in AllPaths |-> NoFile]
    /\ infoFile = NoInfo
    /\ infoWrites = << >>
    /\ hooks = 0
    /\ installs = << >>
    /\ electron = "unknown"
    /\ phase = "running"

NextGet ==
    \/ \E address \in Addresses : Get(address)
    \/ \E res \in Responses : GetResponse(1, res)
    \/ GetError(1)
    \/ GetTimeout(1)
    \/ GetAbortError(1)
    \/ GetLateTimeout(1)
    \/ GetRetry(1)
    \/ \E t \in 1 .. MAX_RETRIES, outcome \in {"settled", "retry", "retry twice"} :
          GetOrphanRetry(1, t, outcome)

\* One call of get and everything it leads to.
SpecGet == InitGet /\ [][NextGet]_vars

\* -------------------------------------------------------------------------
\* The fetcher: fetchAllJSONPages
\* -------------------------------------------------------------------------

MaxPages == 3
MaxDepth == 4

\* The addresses of the pages the server has; page p, where it is an array,
\* holds the array <<p>>.
PageIds == 1 .. MaxPages

\* What the regular expression captures when the match begins in one link
\* of the header and ends in a later one: the text from the first address to
\* the last, which is the address of no page.
Garbage == 0

\* One link of a Link header, <url>; rel="...", and whether url begins
\* with https://.
Link(url, rel, https) == [url |-> url, rel |-> rel, https |-> https]

\* The Link headers a page is served with; << >> for no header.
LinkHeaders ==
    { << >>, << Link(1, "prev", TRUE) >>, << Link(1, "prev", TRUE), Link(MaxPages, "last", TRUE) >> }
        \cup { << Link(p, "next", TRUE) >> : p \in PageIds }
        \cup { << Link(p, "next", TRUE), Link(MaxPages, "last", TRUE) >> : p \in PageIds }
        \cup { << Link(1, "prev", FALSE), Link(p, "next", TRUE) >> : p \in PageIds }
        \cup { << Link(1, "prev", TRUE), Link(p, "next", TRUE) >> : p \in PageIds }

Max(S) == CHOOSE x \in S : \A y \in S : y <= x
Min(S) == CHOOSE x \in S : \A y \in S : x <= y

\* res.headers['link'].match(/<(https:\/\/.+)>;\s*rel=["']next["']/): the
\* match begins at the first "<https://" that has a rel="next" at or after
\* it, and the greedy .+ runs up to the last rel="next" of the header. The
\* result is m[1], or -1 if there is no match.
LinkMatch(header) ==
    LET nexts == { j \in DOMAIN header : header[j].rel = "next" }
        starts == { i \in DOMAIN header : header[i].https /\ \E j \in nexts : i <= j }
    IN IF starts = {} THEN -1
       ELSE IF Min(starts) = Max(nexts) THEN header[Max(nexts)].url
       ELSE Garbage

\* What JSON.parse makes of the text of a page: an array, an object or a
\* string. The array of page p is <<p>>; bodies says which kind each page of
\* the server is of.
JsonKinds == { "array", "object", "string" }
ArrayBodies == [p \in PageIds |-> "array"]

\* A call of fetchAllJSONPages with the calls it makes of itself. address
\* is requested; fetched are the addresses requested before, kinds and jsons
\* the kinds of the values they were answered with and, for arrays, their
\* elements, in order. result is what the promise handed to the caller is
\* fulfilled with, of kind resultKind.
PagesOp(server, bodies, address) ==
    [kind |-> "pages", pc |-> "request", server |-> server, bodies |-> bodies,
     address |-> address, fetched |-> << >>, kinds |-> << >>, jsons |-> << >>,
     result |-> << >>, resultKind |-> "none"]

RECURSIVE Concat(_, _)
\* return json on the last page and json.concat(r) at every level of the
\* recursion above it, from the last page back to the first. An array takes
\* the elements of an array r and any other r as one element (written 0); a
\* string has a concat of its own, which gives a string; an object has none,
\* which is a TypeError.
Concat(kinds, jsons) ==
    IF Len(jsons) = 1 THEN [kind |-> kinds[1], items |-> jsons[1]]
    ELSE LET r == Concat(Tail(kinds), Tail(jsons))
         IN IF r.kind = "TypeError" THEN r
            ELSE IF kinds[1] = "array"
                 THEN [kind |-> "array",
                       items |-> jsons[1] \o (IF r.kind = "array" THEN r.items ELSE << 0 >>)]
            ELSE IF kinds[1] = "string" THEN [kind |-> "string", items |-> << >>]
            ELSE [kind |-> "TypeError", items |-> << >>]

\* fetchAllJSONPages(address)
FetchAllJSONPages(server, bodies, address) ==
    /\ calls = 0
    /\ calls' = calls + 1
    /\ ops' = SetOp(1, PagesOp(server, bodies, address))
    /\ FetchFrame

\* get(address, 'application/json') was fulfilled with the response of page
\* p, and its text was read and parsed. An address that is no page's is
\* answered as the server likes.
PageFetched(id, p) ==
    /\ ops[id].kind = "pages" /\ ops[id].pc = "request"
    /\ ops[id].address \in PageIds => p = ops[id].address
    /\ LET k == ops[id].bodies[p]
           o == [ops[id] EXCEPT !.fetched = Append(ops[id].fetched, ops[id].address),
                                !.kinds = Append(ops[id].kinds, k),
                                !.jsons = Append(ops[id].jsons,
                                                 IF k = "array" THEN << p >> ELSE << >>)]
           header == ops[id].server[p]
           m == LinkMatch(header)
           r == Concat(o.kinds, o.jsons)
       IN /\ m # -1 => Len(o.fetched) < MaxDepth
          /\ ops' = SetOp(id,
                IF header = << >> \/ m = -1
                THEN IF r.kind = "TypeError" THEN [o EXCEPT !.pc = "rejected"]
                     ELSE [o EXCEPT !.pc = "fulfilled", !.result = r.items,
                                    !.resultKind = r.kind]
                ELSE [o EXCEPT !.address = m])
    /\ UNCHANGED calls
    /\ FetchFrame

\* get rejected, or reading the response did: every promise up to the
\* caller's is rejected.
PageFailed(id) ==
    /\ ops[id].kind = "pages" /\ ops[id].pc = "request"
    /\ ops' = SetOp(id, [ops[id] EXCEPT !.pc = "rejected"])
    /\ UNCHANGED calls
    /\ FetchFrame

NextPages ==
    \/ \E server \in [PageIds -> LinkHeaders] : FetchAllJSONPages(server, ArrayBodies, 1)
    \/ \E p \in PageIds : PageFetched(1, p)
    \/ PageFailed(1)

\* One call of fetchAllJSONPages against a server.
SpecPages == InitGet /\ [][NextPages]_vars

\* Link headers with the rel value in another case, and servers with pages
\* that are no arrays.
CasedHeaders ==
    { << >>, << Link(2, "next", TRUE) >>, << Link(3, "next", TRUE) >>,
      << Link(3, "Next", TRUE) >>, << Link(2, "next", TRUE), Link(3, "last", TRUE) >>,
      << Link(1, "prev", TRUE), Link(2, "next", TRUE) >> }

NextAnyPages ==
    \/ \E server \in [PageIds -> CasedHeaders], bodies \in [PageIds -> JsonKinds] :
          FetchAllJSONPages(server, bodies, 1)
    \/ \E p \in PageIds : PageFetched(1, p)
    \/ PageFailed(1)

\* One call of fetchAllJSONPages against a server of any of these kinds.
SpecAnyPages == InitGet /\ [][NextAnyPages]_vars

\* -------------------------------------------------------------------------
\* Manifest texts: serialize and _deserialize
\* -------------------------------------------------------------------------

\* Strings are sequences of characters. A key, a version number and the
\* letters a, b are one character each; ":", " " and "\n" are themselves.
Key(name) == << name >>

initialKeys == << Key("version"), Key("urgency"), Key("date"), Key("changelog") >>

\* The other keys in use, as Object.keys(d).sort() orders them.
SortedKeys == << Key("mac-file"), Key("mac-size"), Key("win-file") >>

\* key.substring(0, key.indexOf('-'))
Group(key) == IF key \in {Key("mac-file"), Key("mac-size")} THEN "mac" ELSE "win"

\* semver.valid(s) for a string s
ValidVersionStrings == { << "1.0.1" >>, << "1.1.0" >> }

\* No value for a key.
Absent == << "absent" >>

\* Values given to the setters of a Manifest.
Values == { << >>, << "a" >>, << " ", "a" >>, << "a", "\n", "b" >>, << "a", ":", "b" >> }

\* Manifest.data: a function from the keys that have a value to the values.
MakeData(pairs) ==
    [k \in { p[1] : p \in { q \in pairs : q[2] # Absent } } |->
        (CHOOSE p \in pairs : p[1] = k)[2]]

\* The data of the manifests made with the setters: version is valid.
ManifestDatas ==
    { MakeData({ << Key("version"), v >>, << Key("urgency"), u >>,
                 << Key("changelog"), c >>, << Key("mac-file"), f >>,
                 << Key("mac-size"), s >>, << Key("win-file"), w >> }) :
        v \in ValidVersionStrings, u \in {Absent, << "a" >>}, c \in Values \cup {Absent},
        f \in Values \cup {Absent}, s \in {Absent, << "1" >>}, w \in {Absent, << "b" >>} }

\* generateKeyPair(): the secret keys of the pairs generated. Each pair has
\* its own Ed25519 keys and its own 8 random bytes of key number.
SecretKeys == { "s1", "s2" }

\* The public key of a pair, decoded: its length in bytes, the 2 bytes of
\* algorithm, the 8 bytes of key number and the Ed25519 public key, named
\* after the secret key it belongs to.
PublicOf(sk) == [len |-> 42, algo |-> "Ed", num |-> sk, key |-> sk]

\* signing.sign(secretKey, text), decoded: length, algorithm, key number,
\* and the detached Ed25519 signature, which is valid for the key that made
\* it and the text signed and for nothing else.
SigningSign(sk, text) ==
    [len |-> 74, algo |-> "Ed", num |-> sk, sig |-> [key |-> sk, text |-> text]]

RECURSIVE FindKey(_, _)
\* The loop of verify over publicKeys: the error thrown on the way, and the
\* key found (FALSE for null).
FindKey(keys, sig) ==
    IF keys = << >> THEN [err |-> "none", found |-> FALSE, key |-> "none"]
    ELSE IF Head(keys).len # 42 THEN [err |-> "BadPublicKeyLength", found |-> FALSE, key |-> "none"]
    ELSE IF Head(keys).algo = sig.algo /\ Head(keys).num = sig.num
         THEN [err |-> "none", found |-> TRUE, key |-> Head(keys).key]
    ELSE FindKey(Tail(keys), sig)

\* The key check left out: any signature of the text by any key passes.
SigningVerifyAnyKey(keys, sig, text) ==
    IF sig.len # 74 THEN "BadSignatureLength"
    ELSE IF sig.algo # "Ed" THEN "UnknownAlgorithm"
    ELSE IF sig.sig.text # text THEN "InvalidSignature"
    ELSE "none"

\* signing.verify(publicKeys, sig, text): "none" or the error thrown
SigningVerify(keys, sig, text) ==
    IF sig.len # 74 THEN "BadSignatureLength"
    ELSE IF sig.algo # "Ed" THEN "UnknownAlgorithm"
    ELSE LET k == FindKey(keys, sig)
         IN IF k.err # "none" THEN k.err
            ELSE IF ~k.found THEN "NoMatchingKey"
            ELSE IF sig.sig.key # k.key \/ sig.sig.text # text THEN "InvalidSignature"
            ELSE "none"

\* lines.join('\n')
RECURSIVE Join(_)
Join(lines) ==
    IF lines = << >> THEN << >>
    ELSE IF Len(lines) = 1 THEN lines[1]
    ELSE lines[1] \o << "\n" >> \o Join(Tail(lines))

\* s.indexOf(c), counted from 1; 0 if c does not occur
IndexOf(s, c) ==
    IF \E i \in DOMAIN s : s[i] = c THEN Min({ i \in DOMAIN s : s[i] = c }) ELSE 0

\* s.split('\n')
RECURSIVE Split(_)
Split(s) ==
    LET i == IndexOf(s, "\n")
    IN IF i = 0 THEN << s >>
       ELSE << SubSeq(s, 1, i - 1) >> \o Split(SubSeq(s, i + 1, Len(s)))

\* s.trim()
RECURSIVE Trim(_)
Trim(s) ==
    IF s = << >> THEN s
    ELSE IF Head(s) \in {" ", "\n"} THEN Trim(Tail(s))
    ELSE IF s[Len(s)] \in {" ", "\n"} THEN Trim(SubSeq(s, 1, Len(s) - 1))
    ELSE s

\* A manifest source text: one with fewer than three lines (short), or a
\* comment line, the signature line, and the rest (body).
Source(sig, body) == [short |-> FALSE, sig |-> sig, body |-> body]
ShortSource == [short |-> TRUE, sig |-> SigningSign("none", << >>), body |-> << >>]

RECURSIVE InitialLines(_, _)
\* initialKeys.forEach(key => { if (value) add(key, value); ... })
InitialLines(d, keys) ==
    IF keys = << >> THEN << >>
    ELSE (IF Head(keys) \in DOMAIN d /\ d[Head(keys)] # << >>
          THEN << Head(keys) \o << ":", " " >> \o d[Head(keys)] >> ELSE << >>)
         \o InitialLines(d, Tail(keys))

RECURSIVE GroupLines(_, _, _)
\* Object.keys(d).sort().forEach(...): the lines of the other keys, with
\* an empty line before each new group.
GroupLines(d, keys, group) ==
    IF keys = << >> THEN << >>
    ELSE LET key == Head(keys)
         IN IF key \in DOMAIN d /\ d[key] # << >>
            THEN (IF group # Group(key) THEN << << >> >> ELSE << >>)
                 \o << key \o << ":", " " >> \o d[key] >>
                 \o GroupLines(d, Tail(keys), Group(key))
            ELSE GroupLines(d, Tail(keys), group)

\* The text serialize signs.
SerializeText(d) ==
    Join(<< << >> >> \o InitialLines(d, initialKeys) \o GroupLines(d, SortedKeys, "")
         \o << << >> >>)

\* Manifest.serialize(secretKey): the text returned, or the error thrown
Serialize(d, sk) ==
    IF Key("version") \notin DOMAIN d \/ d[Key("version")] = << >>
    THEN [ok |-> FALSE, source |-> ShortSource, err |-> "VersionIsEmpty"]
    ELSE [ok |-> TRUE, err |-> "none",
          source |-> Source(SigningSign(sk, SerializeText(d)), SerializeText(d))]

\* One line parsed as key and value.
ParseLine(line) ==
    LET split == IndexOf(line, ":")
    IN IF split = 0 THEN << << >>, << >> >>
       ELSE << Trim(SubSeq(line, 1, split - 1)),
               IF split > 1 THEN Trim(SubSeq(line, split + 1, Len(line))) ELSE << >> >>

RECURSIVE ParseLines(_, _)
\* lines.forEach(line => { ...; data[key] = value; }), starting with data.
ParseLines(lines, data) ==
    IF lines = << >> THEN data
    ELSE LET kv == ParseLine(Head(lines))
         IN ParseLines(Tail(lines),
                       [k \in DOMAIN data \cup { kv[1] } |->
                           IF k = kv[1] THEN kv[2] ELSE data[k]])

\* lines.map(line => line.trim()).filter(line => line.length > 0), parsed.
Parse(text) ==
    LET trimmed == [i \in DOMAIN Split(text) |-> Trim(Split(text)[i])]
    IN ParseLines(SelectSeq(trimmed, LAMBDA line : line # << >>), << >>)

\* Manifest._validate(data) on parsed data
ValidateData(data) ==
    IF Key("version") \in DOMAIN data /\ data[Key("version")] \in ValidVersionStrings
    THEN "none" ELSE "InvalidVersion"

Loaded(data) == [ok |-> TRUE, data |-> data, err |-> "none"]
LoadThrew(e) == [ok |-> FALSE, data |-> << >>, err |-> e]

\* _deserialize with the validation done before the signature is verified.
DeserializeValidateFirst(keys, source) ==
    IF source.short THEN LoadThrew("BadManifest")
    ELSE LET text == Join(Split(source.body))
         IN IF ValidateData(Parse(text)) # "none" THEN LoadThrew(ValidateData(Parse(text)))
            ELSE IF SigningVerify(keys, source.sig, text) # "none"
                 THEN LoadThrew(SigningVerify(keys, source.sig, text))
            ELSE Loaded(Parse(text))

\* Manifest.loadFromString(publicKeys, source)._deserialize: the data of the
\* manifest returned, or the error thrown.
Deserialize(keys, source) ==
    IF source.short THEN LoadThrew("BadManifest")
    ELSE LET text == Join(Split(source.body))
         IN IF SigningVerify(keys, source.sig, text) # "none"
            THEN LoadThrew(SigningVerify(keys, source.sig, text))
            ELSE IF ValidateData(Parse(text)) # "none"
                 THEN LoadThrew(ValidateData(Parse(text)))
            ELSE Loaded(Parse(text))

\* A manifest made, serialized and loaded again. data is Manifest.data,
\* sk the key serialize was given, source the text it returned, changed
\* whether the body of the text was changed after that, keys the public keys
\* given to loadFromString and result what loadFromString did.
ManifestOp(d) ==
    [kind |-> "manifest", pc |-> "made", data |-> d, sk |-> "none", source |-> ShortSource,
     changed |-> FALSE, keys |-> << >>, result |-> LoadThrew("none")]

\* new Manifest() and its setters
NewManifest(d) ==
    /\ calls = 0
    /\ calls' = calls + 1
    /\ ops' = SetOp(1, ManifestOp(d))
    /\ FetchFrame

\* m.serialize(secretKey)
ManifestSerialized(id, sk) ==
    /\ ops[id].kind = "manifest" /\ ops[id].pc = "made"
    /\ LET r == Serialize(ops[id].data, sk)
       IN ops' = SetOp(id, [ops[id] EXCEPT !.pc = IF r.ok THEN "serialized" ELSE "threw",
                                           !.sk = sk, !.source = r.source])
    /\ UNCHANGED calls
    /\ FetchFrame

\* The bodies a serialized text may be changed to on its way: the empty
\* one, one with an invalid version, those of other manifests.
ChangedBodies ==
    { << >>, SerializeText(MakeData({ << Key("version"), << "bad" >> >> })) }
        \cup { SerializeText(MakeData({ << Key("version"), v >>, << Key("changelog"), c >> })) :
                 v \in ValidVersionStrings, c \in {Absent, << "a" >>} }

\* The text is changed between serialize and loadFromString.
ManifestChanged(id, body) ==
    /\ ops[id].kind = "manifest" /\ ops[id].pc = "serialized" /\ ~ops[id].changed
    /\ body # ops[id].source.body
    /\ ops' = SetOp(id, [ops[id] EXCEPT !.source.body = body, !.changed = TRUE])
    /\ UNCHANGED calls
    /\ FetchFrame

\* Manifest.loadFromString(keys, source)
ManifestLoaded(id, keys) ==
    /\ ops[id].kind = "manifest" /\ ops[id].pc = "serialized"
    /\ ops' = SetOp(id, [ops[id] EXCEPT !.pc = "loaded", !.keys = keys,
                                        !.result = Deserialize(keys, ops[id].source)])
    /\ UNCHANGED calls
    /\ FetchFrame

NextManifest ==
    \/ \E d \in ManifestDatas : NewManifest(d)
    \/ \E sk \in SecretKeys : ManifestSerialized(1, sk)
    \/ \E body \in ChangedBodies : ManifestChanged(1, body)
    \/ \E sk \in SecretKeys : ManifestLoaded(1, << PublicOf(sk) >>)

\* A manifest is made, serialized, possibly changed, and loaded.
SpecManifest == InitGet /\ [][NextManifest]_vars

\* -------------------------------------------------------------------------
\* Manifest texts: the lines of a body
\* -------------------------------------------------------------------------

\* Lines of a manifest body: with no ':', with one or two, with ':' first or
\* last, with spaces around, and the empty line.
BodyLines ==
    { << >>, << "a" >>, << "a", ":", "b" >>, << "a", ":", " ", "b" >>, << ":", "b" >>,
      << "a", ":" >>, << "a", ":", "b", ":", "a" >>, << " ", "a", ":", "b", " " >>,
      << "b", ":", "a" >>, << "a", " ", ":", "b" >> }

\* The bodies of one or two of these lines
BodyTexts ==
    { Join(<< l >>) : l \in BodyLines } \cup { Join(<< l, m >>) : l \in BodyLines, m \in BodyLines }

\* The part of _deserialize after the signature is verified, on the text
\* signed: the lines are trimmed, the empty ones dropped and the others
\* parsed into data.
BodyParsed(text) ==
    /\ calls = 0
    /\ calls' = calls + 1
    /\ ops' = SetOp(1, [kind |-> "parse", pc |-> "parsed", text |-> text, data |-> Parse(text)])
    /\ FetchFrame

NextParse == \E text \in BodyTexts : BodyParsed(text)

\* One body is parsed.
SpecParse == InitGet /\ [][NextParse]_vars

\* -------------------------------------------------------------------------
\* Signing: sign and verify
\* -------------------------------------------------------------------------

Messages == { "Hello world", "Goodbye world" }

\* A public key that does not decode to 42 bytes.
BadKey == [len |-> 41, algo |-> "Ed", num |-> "none", key |-> "none"]

\* The lists of public keys verify is given.
KeyLists ==
    LET ks == { PublicOf(sk) : sk \in SecretKeys } \cup { BadKey }
    IN { << k >> : k \in ks } \cup { << k, l >> : k \in ks, l \in ks }

\* The signature with bytes of one part replaced by other bytes: those of
\* the algorithm, of the key number (by the number of the pair `other` or by
\* one of no pair), or of the Ed25519 signature (by that of the pair
\* `other` for the same text, or by bytes no key made).
Replaced(sig, part, other) ==
    IF part = "algo" THEN [sig EXCEPT !.algo = "Xd"]
    ELSE IF part = "num" THEN [sig EXCEPT !.num = IF other = sig.num THEN "none" ELSE other]
    ELSE [sig EXCEPT !.sig.key = IF other = sig.sig.key THEN "none" ELSE other]

\* A text signed and the signature verified. sk signed text; sig is the
\* signature as given to verify, part the part of it that was replaced
\* ("none" if it is as signed); keys and vtext are the keys and the text
\* given to verify, result the error it threw ("none" if it returned).
SignOp(sk, text) ==
    [kind |-> "sign", pc |-> "signed", sk |-> sk, text |-> text, sig |-> SigningSign(sk, text),
     part |-> "none", keys |-> << >>, vtext |-> text, result |-> "none"]

\* const sig = signing.sign(keys.secretKey, msg)
Sign(sk, text) ==
    /\ calls = 0
    /\ calls' = calls + 1
    /\ ops' = SetOp(1, SignOp(sk, text))
    /\ FetchFrame

\* Bytes of the signature are replaced before it is verified.
SignatureReplaced(id, part, other) ==
    /\ ops[id].kind = "sign" /\ ops[id].pc = "signed" /\ ops[id].part = "none"
    /\ ops' = SetOp(id, [ops[id] EXCEPT !.sig = Replaced(ops[id].sig, part, other),
                                        !.part = part])
    /\ UNCHANGED calls
    /\ FetchFrame

\* signing.verify(keys, sig, text)
Verified(id, keys, text) ==
    /\ ops[id].kind = "sign" /\ ops[id].pc = "signed"
    /\ ops' = SetOp(id, [ops[id] EXCEPT !.pc = "verified", !.keys = keys, !.vtext = text,
                                        !.result = SigningVerify(keys, ops[id].sig, text)])
    /\ UNCHANGED calls
    /\ FetchFrame

NextSigning ==
    \/ \E sk \in SecretKeys, text \in Messages : Sign(sk, text)
    \/ \E part \in {"algo", "num", "sig"}, other \in SecretKeys : SignatureReplaced(1, part, other)
    \/ \E keys \in KeyLists, text \in Messages : Verified(1, keys, text)

\* A text is signed, and the signature, possibly changed, is verified.
SpecSigning == InitGet /\ [][NextSigning]_vars

\* -------------------------------------------------------------------------
\* Hashes: verifyHash
\* -------------------------------------------------------------------------

\* Hex digests as given to verifyHash: of the right length, in lower case,
\* in upper case or mixed.
HexHashes == { "aa", "AA", "aA", "bb", "BB", "cc" }

\* The files at filepath: none, or one with a size and the lower-case hex
\* SHA-512 of its contents, as hash.read() returns it.
HashedFiles == { NoFile } \cup { File(n, h) : n \in {0, 1}, h \in {"aa", "bb", "cc"} }

\* verifyHash(correctHash, filepath): calculateHash opens the file.
VerifyHashCalled(correctHash, f) ==
    /\ calls = 0
    /\ calls' = calls + 1
    /\ ops' = SetOp(1, [kind |-> "hash", pc |-> "reading", correct |-> correctHash,
                        file |-> f, result |-> "none"])
    /\ FetchFrame

\* The read stream ended or failed, as it must when there is no file:
\* calculateHash settled, and the continuation of verifyHash ran.
HashCalculated(id, readok) ==
    /\ ops[id].kind = "hash" /\ ops[id].pc = "reading"
    /\ readok => ops[id].file.exists
    /\ ops' = SetOp(id, [ops[id] EXCEPT
                            !.pc = "done",
                            !.result = IF readok THEN VerifyHash(ops[id].correct, ops[id].file)
                                       ELSE "ReadError"])
    /\ UNCHANGED calls
    /\ FetchFrame

NextHash ==
    \/ \E h \in HexHashes, f \in HashedFiles : VerifyHashCalled(h, f)
    \/ \E readok \in BOOLEAN : HashCalculated(1, readok)

\* One call of verifyHash.
SpecHash == InitGet /\ [][NextHash]_vars

\* -------------------------------------------------------------------------
\* The controller
\* -------------------------------------------------------------------------

Intervals == { 0, 60000, 3600000 }

Next ==
    \/ \E d \in {DefaultDirectory, OtherDirectory} : SetDownloadsDirectory(d)
    \/ \E b \in BOOLEAN : SetAutoInstall(b)
    \/ \E i \in 0 .. Len(manifestURLs) - 1 : CheckForUpdates(i)
    \/ \E i \in Intervals : CheckPeriodically(i)
    \/ StopCheckingPeriodically
    \/ Tick
    \/ \E id \in OpIds : \E net \in NetsFor(Address(id)) : CheckFetched(id, net)
    \/ \E id \in OpIds, f \in Served("https://f/a") \cup Served("https://f/b") :
          \E outcome \in FetchOutcomes : DownloadFetched(id, outcome, f)
    \/ \E id \in OpIds : DownloadVerified(id)
    \/ ScheduleInstallOnQuit
    \/ QuitAndInstall
    \/ QuitAndRetryInstall
    \/ \E id \in OpIds : RetryReadInfo(id)
    \/ \E id \in OpIds : RetryLocalSized(id)
    \/ \E id \in OpIds : RetryLocalHashed(id)
    \/ \E id \in OpIds : \E net \in NetsFor(Address(id)) : RetryFetched(id, net)
    \/ \E id \in OpIds, ok \in BOOLEAN : WriteDone(id, ok)
    \/ HostQuit

Spec == Init /\ [][Next]_vars

\* The awaits of a started _download settle: the runtime calls back for the
\* directory, the fetch and the reads of the two verifications.
DownloadSettles ==
    \/ \E id \in OpIds, f \in Served("https://f/a") \cup Served("https://f/b") :
          \E outcome \in FetchOutcomes : DownloadFetched(id, outcome, f)
    \/ \E id \in OpIds : DownloadVerified(id)

LiveSpec == Spec /\ WF_vars(DownloadSettles)

\* -------------------------------------------------------------------------
\* Properties
\* -------------------------------------------------------------------------

EventNames(id) == [i \in 1 .. Len(events[id]) |-> events[id][i].name]

\* The events of call id emitted by checkForUpdates / by _downloadUpdate
CheckEvents(id) == SelectSeq(events[id], LAMBDA e : e.by = "check")
DownloadEvents(id) == SelectSeq(events[id], LAMBDA e : e.by = "download")

\* a is a strictly greater version than b
Greater(a, b) ==
    \/ a[1] > b[1]
    \/ a[1] = b[1] /\ a[2] > b[2]
    \/ a[1] = b[1] /\ a[2] = b[2] /\ a[3] > b[3]

\* m is the data of a manifest text carrying a valid signature by one of the
\* configured public keys
Signed(m) ==
    \E t \in ManifestTexts :
        t.data = m /\ ~t.short /\ t.sigok /\ t.keynum \in publicKeys /\ Len(m.version) = 3

SignedNewer(m) == Signed(m) /\ Greater(m.version, currentVersion)
SignedNotNewer(m) == Signed(m) /\ ~Greater(m.version, currentVersion)

C1_State ==
    /\ newVersion # NullManifest => SignedNewer(newVersion)
    /\ \A id \in OpIds : \A i \in DOMAIN events[id] :
          events[id][i].name = "update-available" => SignedNewer(events[id][i].man)
    /\ \A id \in OpIds :
          ops[id].kind = "check" /\ ops[id].pc = "done" /\ SignedNotNewer(ops[id].manifest)
             => EventNames(id) = << "checking-for-update", "update-not-available" >>

C1_Step ==
    \A id \in OpIds :
        /\ ops[id].kind = "check" /\ ops[id].pc = "fetch" /\ ops'[id].pc = "done"
        /\ SignedNotNewer(ops'[id].manifest)
        => newVersion' = newVersion

\* C1: 'update-available' is emitted and newVersion is assigned only with a
\* manifest that carries a valid signature by a configured public key and
\* whose version is strictly greater than currentVersion; a check that got a
\* signed manifest of an equal or lower version emits 'update-not-available'
\* and leaves newVersion as it was.
C1_UpdateAvailableOnlyVerifiedNewer == []C1_State /\ [][C1_Step]_vars

\* One check announced an update and another one, which got a signed manifest
\* that is not newer, has finished while newVersion is set.
C1_Witness ==
    \E a, b \in OpIds :
        /\ Len(events[a]) >= 2 /\ events[a][2].name = "update-available"
        /\ ops[b].kind = "check" /\ ops[b].pc = "done" /\ SignedNotNewer(ops[b].manifest)
        /\ newVersion # NullManifest

\* The step of call id in which its _download passes verifyHash: the file it
\* fetched has the size and the hash taken from newVersion when it started.
VerifiedStep(id) ==
    /\ ops[id].dl = "verify" /\ ops'[id].dl = "ok"
    /\ disk[ops[id].tmpfile] = File(ops[id].size, ops[id].hash)

\* The step in which the started _download of call id fails.
FailStep(id) == ops[id].dl \in {"fetch", "verify"} /\ ops'[id].dl = "failed"

\* The step in which quitAndRetryInstall takes the file named by the info
\* file, verified against the size and hash recorded there.
LocalReuseStep(id) ==
    /\ ops[id].kind = "retry" /\ ops[id].pc = "local_hash"
    /\ downloadedFile' = ops[id].info.updateFile
    /\ FileAt(downloadedFile') = File(ops[id].info.updateSize, ops[id].info.updateHash)
    /\ StartsWith(downloadedFile', directory)

DownloadErrors(id) == SelectSeq(events[id], LAMBDA e : e.by = "download" /\ e.name = "error")

\* What every _download does, whoever started it.
C2_DownloadStep ==
    \A id \in OpIds :
        /\ ops[id].dl # "fetch" /\ ops'[id].dl = "fetch"
             => /\ ops'[id].size = GetSize(newVersion')
                /\ ops'[id].hash = GetSha512(newVersion')
        /\ ops[id].dl # "verify" /\ ops'[id].dl = "verify"
             => ops[id].dl = "fetch" /\ disk'[ops[id].tmpfile].exists
        /\ ops[id].dl # "ok" /\ ops'[id].dl = "ok"
             => VerifiedStep(id) /\ downloadedFile' = ops[id].tmpfile
        /\ Len(DownloadEvents(id)') > Len(DownloadEvents(id))
           /\ events'[id][Len(events'[id])].name = "update-downloaded"
             => VerifiedStep(id) /\ events'[id][Len(events'[id])].file = ops[id].tmpfile
        /\ FailStep(id) => downloadedFile' = downloadedFile /\ ~downloading'

C2_OriginalStep ==
    /\ C2_DownloadStep
    /\ downloadedFile' # downloadedFile => \E id \in OpIds : VerifiedStep(id)
    /\ \A id \in OpIds : FailStep(id) => Len(DownloadErrors(id)') = Len(DownloadErrors(id)) + 1

C2_OriginalState ==
    \A id \in OpIds : ops[id].dl = "failed" => Len(DownloadErrors(id)) = 1

C2_AmendedStep ==
    /\ C2_DownloadStep
    /\ downloadedFile' # downloadedFile =>
          \E id \in OpIds : VerifiedStep(id) \/ LocalReuseStep(id)
    /\ \A id \in OpIds : FailStep(id) =>
          IF ops[id].kind = "check"
          THEN /\ Len(DownloadErrors(id)') = Len(DownloadErrors(id)) + 1
               /\ Len(events'[id]) = Len(events[id]) + 1
          ELSE events' = events

C2_AmendedState ==
    \A id \in OpIds :
        /\ ops[id].dl = "failed" /\ ops[id].kind = "check" => Len(DownloadErrors(id)) = 1
        /\ ops[id].kind # "check" => events[id] = << >>

Outcomes == { "update-available", "update-not-available", "error" }

\* C3: each checkForUpdates call emits 'checking-for-update' first and after
\* it exactly one of 'update-available', 'update-not-available', 'error':
\* none while its check is running, one once it has finished, never two.
C3_CheckEventOrder ==
    \A id \in OpIds :
        LET evs == CheckEvents(id) IN
        IF ops[id].kind = "check"
        THEN /\ Len(events[id]) >= 1 /\ events[id][1].name = "checking-for-update"
             /\ events[id][1].by = "check"
             /\ Len(evs) = IF ops[id].pc = "done" THEN 2 ELSE 1
             /\ Len(evs) = 2 => evs[2].name \in Outcomes
        ELSE evs = << >>

\* Two calls have finished, one with 'update-available' and one with 'error'.
C3_Witness ==
    \E a, b \in OpIds :
        /\ ops[a].kind = "check" /\ ops[a].pc = "done"
        /\ CheckEvents(a)[2].name = "update-available"
        /\ ops[b].kind = "check" /\ ops[b].pc = "done"
        /\ CheckEvents(b)[2].name = "error"

C4_Step ==
    \A id \in OpIds :
        /\ ops[id].kind = "check" /\ ops[id].pc = "fetch" /\ ops'[id].pc = "done"
           /\ Len(events'[id]) >= 2 /\ events'[id][2].name = "update-available"
           /\ ~downloading /\ downloadedFile = NoPath
             => \/ ops'[id].dl = "fetch" /\ downloading'
                \/ ops'[id].dl = "NoPlatformFile" /\ Len(DownloadErrors(id)') = 1

C4_State ==
    \A id \in OpIds :
        /\ DownloadEvents(id) # << >> =>
              /\ Len(events[id]) = 3
              /\ EventNames(id)[1] = "checking-for-update"
              /\ EventNames(id)[2] = "update-available"
              /\ EventNames(id)[3] \in {"update-downloaded", "error"}
              /\ events[id][3].by = "download"
        /\ ops[id].kind = "check" /\ ops[id].dl \in {"ok", "failed", "NoPlatformFile"}
              => Len(DownloadEvents(id)) = 1
        /\ ops[id].kind = "check" /\ ops[id].dl = "ok" =>
              /\ EventNames(id) = << "checking-for-update", "update-available",
                                     "update-downloaded" >>
              /\ StartsWith(events[id][3].file, directory \o << "/" >>)
              /\ disk[events[id][3].file].exists
              /\ events[id][3].man # NullManifest

FetchFailed(idx, net) == ~FetchManifest(manifestURLs[idx], net).ok

C5_State ==
    /\ \A id \in OpIds :
          /\ ops[id].kind = "check" /\ ops[id].pc = "fetch"
                => events[id] = << Ev("checking-for-update", "check", NoPath, NullManifest, NoErr) >>
                   /\ ops[id].idx \in DOMAIN manifestURLs
          /\ \A i \in DOMAIN events[id] :
                events[id][i].name = "error" /\ events[id][i].by = "check"
                   => /\ events[id][i].err.kind = "CheckError"
                      /\ events[id][i].err.url = Len(manifestURLs)
                      /\ events[id][i].err.cause \in
                            {"RequestFailed", "BadManifest", "NoMatchingKey",
                             "InvalidSignature", "InvalidVersion", "TypeError",
                             "NoManifestAsset"}
    /\ \A idx \in DOMAIN manifestURLs : \A net \in NetsFor(manifestURLs[idx]) :
          /\ Check(idx, net).state =
                IF ~FetchFailed(idx, net) THEN "returned"
                ELSE IF idx < Len(manifestURLs) THEN "next" ELSE "threw"
          /\ FetchFailed(idx, net) =>
                Check(idx, net).err.cause \in {FetchManifest(manifestURLs[idx], net).err, "none"}

C5_Step ==
    \A id \in OpIds :
        ops[id].kind = "check" /\ ops[id].pc = "fetch" /\ ops'[id] # ops[id] =>
            \/ /\ ops'[id].pc = "fetch" /\ ops'[id].idx = ops[id].idx + 1
               /\ events'[id] = events[id]
            \/ /\ ops'[id].pc = "done"
               /\ Len(CheckEvents(id)') = 2
               /\ CheckEvents(id)'[2].name = "error" => ops[id].idx = Len(manifestURLs)

\* C5: within one check the manifest URLs are tried in list order; a failure
\* at a URL that is not the last moves on to the next without emitting; a URL
\* that fetches and verifies ends the check; 'error' is emitted only after the
\* last URL failed, once, and carries that URL's failure.
C5_URLsInOrder == []C5_State /\ [][C5_Step]_vars

\* A check has failed at every URL and reported the failure of the last one.
C5_Witness ==
    \E id \in OpIds :
        /\ ops[id].kind = "check" /\ ops[id].pc = "done"
        /\ Len(events[id]) = 2 /\ events[id][2].name = "error"
        /\ events[id][2].err.url = Len(manifestURLs)
        /\ events[id][2].err.cause = "InvalidSignature"

InFlight == { id \in OpIds : ops[id].dl \in {"fetch", "verify"} }

C6_State ==
    /\ Cardinality(InFlight) <= 1
    /\ downloading <=> InFlight # {}

C6_Step ==
    \A id \in OpIds :
        /\ ops[id].dl = "none" /\ ops'[id].dl = "DownloadInProgress" =>
              /\ downloading /\ downloading'
              /\ disk' = disk
              /\ \A other \in OpIds \ {id} : ops'[other] = ops[other]
        /\ ops[id].dl = "none" /\ ops'[id].dl = "fetch" => ~downloading
        /\ ops[id].kind = "retry" /\ ops[id].pc = "fetch" /\ ops'[id].pc # "fetch"
           /\ ops'[id].manifest # NullManifest /\ SignedNewer(ops'[id].manifest)
           /\ downloading
              => ops'[id].dl = "DownloadInProgress"

\* C6: at most one download is in flight; a download requested while
\* downloading is true fails with DownloadInProgress, starts no fetch, and
\* leaves the running download and its downloading flag as they are.
C6_OneDownloadInFlight == []C6_State /\ [][C6_Step]_vars

\* quitAndRetryInstall asked for a download while the download of a check was
\* in flight, and was refused.
C6_Witness ==
    \E a, b \in OpIds :
        /\ ops[a].kind = "check" /\ ops[a].dl \in {"fetch", "verify"}
        /\ ops[b].kind = "retry" /\ ops[b].dl = "DownloadInProgress"
        /\ downloading

\* The calls whose _check is waiting for a manifest
Checking == { id \in OpIds : ops[id].pc = "fetch" }

\* C7: at most one check is in flight: a tick or a checkForUpdates call that
\* arrives while a check is in progress starts no second manifest fetch.
C7_OneCheckInFlight == Cardinality(Checking) <= 1

\* The files of the downloads directories written by the _download of call id
TmpFilesOf(id) ==
    { p \in AllPaths : p # LeftoverFile /\ SubSeq(p, Len(p) - 1, Len(p)) = TmpName(id)
                       /\ disk[p].exists }

\* C8: a successful download leaves exactly one new update file in the
\* downloads directory, a failed one leaves none of that call.
C8_TmpFiles ==
    \A id \in OpIds :
        /\ ops[id].dl = "ok" => Cardinality(TmpFilesOf(id)) = 1
        /\ ops[id].dl = "failed" => TmpFilesOf(id) = {}

\* C9: whenever the exit hook has run the installer for a downloaded file, an
\* UpdateInfo write for that file was made before.
C9_InfoWrittenBeforeInstall ==
    \A i \in DOMAIN installs :
        \E w \in DOMAIN infoWrites : infoWrites[w].updateFile = installs[i].file

\* C10: didLastUpdateFail() resolves to true exactly if the info file is
\* readable JSON whose currentVersion equals the running version, and to
\* false in every other case; it never rejects.
C10_DidLastUpdateFail ==
    \A id \in OpIds :
        ops[id].kind = "didLastUpdateFail" =>
            /\ ops[id].pc \in {"read", "resolved_true", "resolved_false"}
            /\ ops[id].pc # "read" =>
                  (ops[id].pc = "resolved_true"
                      <=> infoFile.kind = "json" /\ infoFile.currentVersion = currentVersion)

\* didLastUpdateFail() has resolved to true.
C10_Witness ==
    \E id \in OpIds :
        /\ ops[id].kind = "didLastUpdateFail" /\ ops[id].pc = "resolved_true"
        /\ infoFile.updateVersion = <<1, 0, 1>>

\* Path p lies inside directory dir.
Inside(p, dir) == StartsWith(p, dir \o << "/" >>)

C11_Step ==
    \A p \in DOMAIN disk : disk[p].exists /\ ~disk'[p].exists => Inside(p, directory)

\* C11: cleanup() deletes the file named by the info file only if its path
\* lies inside the downloads directory; a file outside it, also one in a
\* sibling directory whose path begins with the directory's path string, is
\* never deleted.
C11_CleanupDeletesOnlyInside == [][C11_Step]_vars

\* C12: when the info file could be read, it no longer exists once cleanup()
\* has completed (unless removing the info file itself failed), whether or
\* not the update file existed, was outside the directory or could be
\* deleted.
C12_CleanupRemovesInfoFile ==
    \A id \in OpIds :
        /\ ops[id].kind = "cleanup" /\ ops[id].pc = "done"
        /\ ops[id].dl \notin {"unreadable", "info_failed"}
        => infoFile.kind = "missing"

\* The info file records size, hash and path of an update file that lies
\* inside the downloads directory and has that size and hash.
HasValidLocal ==
    /\ infoFile.kind = "json" /\ infoFile.currentVersion # BadVersion
    /\ infoFile.updateSize # NullNum /\ infoFile.updateHash # Undefined
    /\ infoFile.updateFile # NoPath
    /\ Inside(infoFile.updateFile, directory)
    /\ FileAt(infoFile.updateFile) = File(infoFile.updateSize, infoFile.updateHash)

C13_Step ==
    \A id \in OpIds :
        /\ ops[id].kind = "retry" /\ ops[id].pc \in {"local_read", "local_size", "local_hash"}
           /\ ops'[id].pc = "fetch"
              => ~HasValidLocal
        /\ ops[id].kind = "retry" /\ ops[id].pc = "local_hash" /\ ops'[id].pc # "local_hash"
           /\ ops'[id].pc # "fetch"
              => HasValidLocal /\ downloadedFile' = infoFile.updateFile

\* C13: quitAndRetryInstall re-uses the recorded update file, with no
\* manifest check and no download, whenever the info file has updateSize,
\* updateHash and updateFile, the file lies inside the downloads directory
\* and has the recorded size and hash; it falls back to a check only when
\* there is no such file.
C13_RetryReusesValidLocalFile == [][C13_Step]_vars

\* The step in which the re-check or re-download of quitAndRetryInstall fails.
RetryFailStep(id) ==
    /\ ops[id].kind = "retry"
    /\ \/ FailStep(id)
       \/ ops[id].pc = "fetch" /\ ops'[id].pc \notin {"fetch", "download"}

C14_Step ==
    \A id \in OpIds :
        RetryFailStep(id) =>
            /\ ops'[id].pc = "remember"
            /\ Len(infoWrites') = Len(infoWrites) + 1

\* C14: whenever quitAndRetryInstall can neither re-use a local file nor
\* re-check and re-download, it writes another install-attempt record (and
\* relaunches once the write has settled), also when no newVersion is known.
C14_RetryFailureIsRecorded == [][C14_Step]_vars

\* ---- the fetcher ----

\* The step handles a 3xx response with a Location header for the request
\* in flight.
RedirectStep(id) ==
    /\ ops[id].kind = "get" /\ ops[id].pc = "request"
    /\ ops'[id].pc # "request" \/ ops'[id].redirs # ops[id].redirs
    /\ ops'[id].last.status >= 300 /\ ops'[id].last.status < 400
    /\ ops'[id].last.location # NoLocation

\* ... and the Location, resolved against the current address if it does not
\* begin with http: or https:, is not an https: URL.
UnsafeRedirectStep(id) ==
    /\ RedirectStep(id)
    /\ Target(ops[id].address, ops'[id].last.location).scheme # "https"

\* The step makes no request.
NoRequest(id) ==
    /\ ops'[id].followed = ops[id].followed
    /\ ops'[id].attempts = ops[id].attempts

C15_State == \A id \in OpIds : ops[id].kind = "get" => ~ops[id].unsafe

C15_OriginalStep ==
    \A id \in OpIds :
        UnsafeRedirectStep(id) =>
            /\ ops'[id].pc = "rejected" /\ ops'[id].err = "UnsafeRedirect"
            /\ NoRequest(id)

\* C15 as stated: no request goes to a redirect target that is not https,
\* and a 3xx response whose Location is not an https: URL makes the fetch
\* fail with UnsafeRedirect, with no further request and no retry.
C15_Original == []C15_State /\ [][C15_OriginalStep]_vars

C15_AmendedStep ==
    \A id \in OpIds :
        UnsafeRedirectStep(id) =>
            /\ ops'[id].pc = "rejected"
            /\ ops'[id].err = IF ops[id].redirs >= MAX_REDIRECTS
                              THEN "TooManyRedirects" ELSE "UnsafeRedirect"
            /\ NoRequest(id)

\* C15: no request goes to a redirect target that is not https: a 3xx
\* response whose Location is not an https: URL makes the fetch fail, with
\* no request and no retry, with UnsafeRedirect, or with TooManyRedirects
\* if MAX_REDIRECTS redirects were followed since the last retry.
C15_UnsafeRedirectNotFollowed == []C15_State /\ [][C15_AmendedStep]_vars

\* A relative Location was resolved against an http: address and refused
\* after a redirect had been followed.
C15_Witness ==
    \E id \in OpIds :
        /\ ops[id].kind = "get" /\ ops[id].pc = "rejected" /\ ops[id].err = "UnsafeRedirect"
        /\ ops[id].last.location \in {Url("http", "b"), Url("ftp", "b")}
        /\ ops[id].followed > 0

\* C16: across one call of get by a caller, retries included, no more than
\* MAX_REDIRECTS redirects are followed.
C16_RedirectsBounded ==
    \A id \in OpIds : ops[id].kind = "get" => ops[id].followed <= MAX_REDIRECTS

\* C17: across one call of get by a caller no more than MAX_RETRIES + 1
\* requests are made that are not redirect hops, whatever non-200 responses,
\* transport errors and timeouts occur; redirects leave the try counter as it
\* is, and the fetch fails with RequestFailed once the retries are used up.
C17_State == \A id \in OpIds : ops[id].kind = "get" => ops[id].attempts <= MAX_RETRIES + 1

C17_Step ==
    \A id \in OpIds :
        /\ RedirectStep(id) => ops'[id].tries = ops[id].tries
        /\ ops[id].kind = "get" /\ ops[id].pc = "request" /\ ops[id].tries = MAX_RETRIES
           /\ ops'[id].pc # "request"
           /\ ops'[id].last.status \notin {200, 404}
           /\ ~RedirectStep(id)
           => ops'[id].pc = "rejected" /\ ops'[id].err = "RequestFailed"

C17_AttemptsBounded == []C17_State /\ [][C17_Step]_vars

\* The address of the first link with rel="next" in the header page p is
\* served with, or 0 if it has none.
NextOf(server, p) ==
    LET nexts == { j \in DOMAIN server[p] : server[p][j].rel = "next" }
    IN IF nexts = {} THEN 0 ELSE server[p][Min(nexts)].url

RECURSIVE ChainFrom(_, _, _)
\* The pages linked by rel="next" from page p on, n of them at most.
ChainFrom(server, p, n) ==
    IF n = 1 \/ NextOf(server, p) = 0 THEN << p >>
    ELSE << p >> \o ChainFrom(server, NextOf(server, p), n - 1)

IsPrefix(s, t) == Len(s) <= Len(t) /\ SubSeq(t, 1, Len(s)) = s

\* C18: fetchAllJSONPages requests the pages of the rel="next" chain in
\* order and nothing else; it is fulfilled only when the chain has ended, and
\* then with the concatenation of the arrays of all pages of the chain in
\* page order (page p holds the array <<p>>, so that concatenation is the
\* chain itself).
C18_PagesFollowNextChain ==
    \A id \in OpIds :
        ops[id].kind = "pages" =>
            LET o == ops[id]
                chain == ChainFrom(o.server, 1, MaxDepth + 1)
                requested == IF o.pc = "request" THEN Append(o.fetched, o.address)
                             ELSE o.fetched
            IN /\ IsPrefix(requested, chain)
               /\ o.pc = "fulfilled" =>
                     /\ o.fetched = chain
                     /\ NextOf(o.server, chain[Len(chain)]) = 0
                     /\ o.result = chain

\* ---- manifest texts ----

\* C19: a manifest serialized with a secret key and loaded with the public
\* key of that key loads, and the data loaded have the same keys and the same
\* values as the data serialized.
C19_RoundTrip ==
    \A id \in OpIds :
        ops[id].kind = "manifest" =>
            /\ ops[id].pc # "threw"
            /\ ops[id].pc = "loaded" /\ ~ops[id].changed /\ ops[id].keys = << PublicOf(ops[id].sk) >>
               => ops[id].result.ok /\ ops[id].result.data = ops[id].data

\* C20: when the body of a text that verifies is changed, loadFromString
\* throws InvalidSignature and returns no manifest, whatever the changed body
\* holds, an invalid version included.
C20_SignatureBeforeValidation ==
    \A id \in OpIds :
        ops[id].kind = "manifest" /\ ops[id].pc = "loaded" /\ ops[id].changed
        /\ ops[id].keys = << PublicOf(ops[id].sk) >>
        => ~ops[id].result.ok /\ ops[id].result.err = "InvalidSignature"

\* The changed body has an invalid version.
C20_Witness ==
    \E id \in OpIds :
        /\ ops[id].kind = "manifest" /\ ops[id].pc = "loaded" /\ ops[id].changed
        /\ ops[id].keys = << PublicOf(ops[id].sk) >>
        /\ IndexOf(ops[id].source.body, "bad") > 0
        /\ ops[id].result.err = "InvalidSignature"

\* ---- signing ----

\* All the keys of the list are keys of generated pairs.
Generated(keys) == \A i \in DOMAIN keys : \E sk \in SecretKeys : keys[i] = PublicOf(sk)

\* The public key of the pair that signed is in the list.
HasSigner(o) == \E i \in DOMAIN o.keys : o.keys[i] = PublicOf(o.sk)

\* verify was given the signature as signed, the text signed and a list of
\* keys with the signer's.
Genuine(o) == o.part = "none" /\ o.vtext = o.text /\ HasSigner(o)

\* verify was given another text, a signature with bytes replaced, or the
\* key of another pair only.
Forged(o) ==
    \/ o.vtext # o.text
    \/ o.part # "none"
    \/ o.keys = << PublicOf(CHOOSE sk \in SecretKeys : sk # o.sk) >>

\* C21 as stated: verify succeeds for the signature, the text signed and a
\* list of keys with the signer's; with another text, a signature with bytes
\* replaced or only another pair's key it fails with InvalidSignature or
\* NoMatchingKey.
C21_Original ==
    \A id \in OpIds :
        ops[id].kind = "sign" /\ ops[id].pc = "verified" /\ Generated(ops[id].keys) =>
            /\ Genuine(ops[id]) => ops[id].result = "none"
            /\ Forged(ops[id]) => ops[id].result \in {"InvalidSignature", "NoMatchingKey"}

\* C21: verify succeeds for the signature, the text signed and a list of
\* keys with the signer's; with another text, a signature with bytes replaced
\* or only another pair's key it fails: with UnknownAlgorithm if the bytes
\* replaced are those of the algorithm, else with InvalidSignature or
\* NoMatchingKey.
C21_SignVerify ==
    \A id \in OpIds :
        ops[id].kind = "sign" /\ ops[id].pc = "verified" /\ Generated(ops[id].keys) =>
            /\ Genuine(ops[id]) => ops[id].result = "none"
            /\ Forged(ops[id]) =>
                  /\ ops[id].result \in {"UnknownAlgorithm", "InvalidSignature", "NoMatchingKey"}
                  /\ ops[id].result = "UnknownAlgorithm" <=> ops[id].part = "algo"

\* The signature body of one pair under the key number of the other, verified
\* with both keys configured.
C21_Witness ==
    \E id \in OpIds :
        /\ ops[id].kind = "sign" /\ ops[id].pc = "verified"
        /\ ops[id].part = "sig" /\ Len(ops[id].keys) = 2 /\ Generated(ops[id].keys)
        /\ ops[id].vtext = ops[id].text
        /\ ops[id].result = "InvalidSignature"

\* ---- hashes ----

\* A hex string in lower case.
LowerHex(h) == IF h \in {"AA", "aA"} THEN "aa" ELSE IF h = "BB" THEN "bb" ELSE h

\* C22: verifyHash(h, p) succeeds exactly when the lower-case hex SHA-512 of
\* the contents of p equals h with case ignored; otherwise it fails with
\* HashMismatch, and it fails when the file cannot be read.
C22_VerifyHash ==
    \A id \in OpIds :
        ops[id].kind = "hash" /\ ops[id].pc = "done" =>
            IF ops[id].result = "ReadError" THEN TRUE
            ELSE IF ops[id].file.hash = LowerHex(ops[id].correct) THEN ops[id].result = "none"
            ELSE ops[id].result = "HashMismatch"

\* ---- checkForUpdates(manifestURLIndex) ----

C23_Step ==
    \A i \in 0 .. Len(manifestURLs) - 1 :
        CheckForUpdates(i) =>
            /\ ops'[calls'].kind = "check" /\ ops'[calls'].pc = "fetch"
            /\ ops'[calls'].idx = i + 1

\* C23: checkForUpdates(i) starts the check at manifestURLs[i]: the manifest
\* it fetches first is the one at index i (the URLs below i are then never
\* fetched by the call, since the index only grows).
C23_CheckStartsAtIndex == [][C23_Step]_vars

\* ---- _download: the platform entries ----

\* The manifest has a file, a size and a sha512 entry for the platform.
HasPlatformFile(m) == m.file # Undefined /\ m.size # Undefined /\ m.sha512 # Undefined

C24_Step ==
    \A id \in OpIds :
        /\ ops[id].dl # "fetch" /\ ops'[id].dl = "fetch" => HasPlatformFile(newVersion')
        /\ ops[id].kind = "check" /\ ops[id].pc = "fetch" /\ ops'[id].pc # "fetch"
           /\ ops'[id].manifest # NullManifest /\ newVersion' = ops'[id].manifest
           /\ ~downloading /\ downloadedFile = NoPath /\ ~HasPlatformFile(newVersion')
           => /\ ops'[id].dl = "NoPlatformFile"
              /\ ~downloading'

\* C24: _download starts a fetch and sets downloading only for a newVersion
\* that has all of <platform>-file, <platform>-size and <platform>-sha512;
\* when one of them is missing, the size included, it throws NoPlatformFile
\* with downloading left false.
C24_NoPlatformFile == [][C24_Step]_vars

\* The scheduleInstallOnQuit calls
ScheduleOps == { id \in OpIds : ops[id].kind = "schedule" }

\* A step in which scheduleInstallOnQuit call id leaves its UpdateInfo write
WriteLeft(id) == ops[id].kind = "schedule" /\ ops[id].pc = "write" /\ ops'[id].pc # "write"

C25_Step ==
    /\ ScheduleInstallOnQuit =>
           /\ restart' = "false"
           /\ ops'[calls'].pc = "write"
           /\ Len(infoWrites') = Len(infoWrites) + 1
           /\ hooks' = hooks
    /\ \A id \in OpIds :
           WriteLeft(id) => ops'[id].pc = "done" /\ exitHookInstalled' /\ hooks' = 1

\* C25: scheduleInstallOnQuit sets restart to false, then attempts the
\* UpdateInfo write, then arms the exit hook, in that order; whether the write
\* succeeds or fails the hook is armed and the call completes without error.
C25_ScheduleInstallOnQuit ==
    /\ [](\A id \in ScheduleOps : ops[id].pc \in {"write", "done"})
    /\ [][C25_Step]_vars

\* The same for the calls made while an update is known
C25_KnownUpdateStep ==
    /\ (ScheduleInstallOnQuit /\ newVersion # NullManifest) =>
           /\ restart' = "false"
           /\ ops'[calls'].pc = "write"
           /\ Len(infoWrites') = Len(infoWrites) + 1
           /\ hooks' = hooks
    /\ \A id \in OpIds :
           WriteLeft(id) => ops'[id].pc = "done" /\ exitHookInstalled' /\ hooks' = 1

C25_KnownUpdate == [][C25_KnownUpdateStep]_vars

\* The period checkPeriodically(interval) asks for: the default when the
\* interval is omitted, never less than the minimum
Period(interval) ==
    IF interval = 0 THEN DEFAULT_INTERVAL
    ELSE IF interval >= MIN_INTERVAL THEN interval ELSE MIN_INTERVAL

C27_Step ==
    /\ \A i \in Intervals :
           CheckPeriodically(i) => timers' = { [id |-> calls', period |-> Period(i)] }
    /\ StopCheckingPeriodically => timers' = {}

\* C27: checkPeriodically(interval) schedules the checks with period
\* max(interval, 15 min), or 10 h when the interval is omitted; at most one
\* timer is active at any time, a new call cancelling the timer of the previous
\* one, and none is active after stopCheckingPeriodically.
C27_OneTimer ==
    /\ [](Cardinality(timers) <= 1)
    /\ [][C27_Step]_vars

\* A second checkPeriodically, with an interval below the minimum, has
\* replaced the timer of the first
C27_Witness ==
    /\ intervalId = 2 /\ ops[1].kind = "none"
    /\ timers = { [id |-> 2, period |-> MIN_INTERVAL] }

\* The calls that set restart to true: quitAndInstall, also when it is made by
\* quitAndRetryInstall
SetsRestart == QuitAndInstall \/ \E id \in OpIds : ops[id].kind = "retry"

C26_Step ==
    /\ ScheduleInstallOnQuit => restart' = "false"
    /\ QuitAndInstall => restart' = "true"
    /\ restart' # restart =>
           \/ ScheduleInstallOnQuit
           \/ SetsRestart /\ restart' = "true"
    /\ installs' # installs =>
           /\ downloadedFile' # NoPath
           /\ installs' = Append(installs, [file |-> downloadedFile',
                                            restart |-> (restart' = "true")])

\* C26: at most one exit hook is registered, whatever downloads,
\* scheduleInstallOnQuit and quitAndInstall calls were made; when the host
\* quits the installer is run at most once, for the current downloadedFile and
\* with the restart value of the latest scheduleInstallOnQuit (false) or
\* quitAndInstall (true).
C26_OneHookOneInstall ==
    /\ [](hooks <= 1 /\ Len(installs) <= 1)
    /\ [][C26_Step]_vars

\* A completed download armed the hook, quitAndInstall found it armed, and
\* the installer ran once with restart true
C26_Witness ==
    /\ Len(installs) = 1 /\ installs[1].restart /\ installs[1].file = downloadedFile
    /\ exitHookInstalled /\ autoInstall
    /\ \E id \in OpIds : ops[id].kind = "quitAndInstall" /\ ops[id].pc = "done"

\* The persistent error that response res to the request of o amounts to, or
\* "none": a 404, a redirect beyond the limit or to a target that is not
\* https, a 200 of another content type than the expected one.
PersistentError(o, res) ==
    IF res.status = 404 THEN "NotFound"
    ELSE IF res.status >= 300 /\ res.status < 400 /\ res.location # NoLocation
         THEN IF o.redirs >= MAX_REDIRECTS THEN "TooManyRedirects"
              ELSE IF Target(o.address, res.location).scheme # "https" THEN "UnsafeRedirect"
              ELSE "none"
    ELSE IF res.status = 200 /\ ~res.typed THEN "UnexpectedContentType"
    ELSE "none"

C28_Step ==
    \A id \in OpIds :
        /\ \A res \in Responses :
               GetResponse(id, res) /\ PersistentError(ops[id], res) # "none" =>
                   /\ ops'[id].pc = "rejected"
                   /\ ops'[id].err = PersistentError(ops[id], res)
                   /\ NoRequest(id)
                   /\ ops'[id].tries = ops[id].tries
                   /\ ops'[id].orphans = ops[id].orphans
        /\ ops[id].kind = "get" /\ ops[id].pc = "rejected" => ops'[id].pc = "rejected"

\* C28: a 404 response, an unsafe redirect, too many redirects and a content
\* type other than the expected one reject the call of get at once: the
\* response handler makes no request and starts no retry, however many
\* retries are left, and the rejected call stays rejected.
C28_PersistentErrorsNotRetried == [][C28_Step]_vars

\* A 404 has rejected the call with retries left, after one retry
C28_Witness ==
    \E id \in OpIds :
        /\ ops[id].kind = "get" /\ ops[id].pc = "rejected" /\ ops[id].err = "NotFound"
        /\ ops[id].last.status = 404
        /\ ops[id].tries = 1

\* res is a 3xx response with a Location header
IsRedirect(res) == res.status >= 300 /\ res.status < 400 /\ res.location # NoLocation

C29_Step ==
    \A id \in OpIds : \A res \in Responses :
        GetResponse(id, res) /\ IsRedirect(res) =>
            /\ ops'[id].tries = ops[id].tries
            /\ IF ops[id].redirs < MAX_REDIRECTS
               THEN Target(ops[id].address, res.location).scheme = "https" =>
                        /\ ops'[id].pc = "request"
                        /\ ops'[id].address = Target(ops[id].address, res.location)
                        /\ ops'[id].redirs = ops[id].redirs + 1
               ELSE /\ ops'[id].pc = "rejected" /\ ops'[id].err = "TooManyRedirects"
                    /\ NoRequest(id)

\* C29: of the redirects that follow one another with no retry in between,
\* get follows the first 10 and fails with TooManyRedirects when it receives
\* the 11th; a redirect leaves the try counter as it is.
C29_TenRedirects ==
    /\ [](\A id \in OpIds : ops[id].kind = "get" => ops[id].redirs <= MAX_REDIRECTS)
    /\ [][C29_Step]_vars

\* The first attempt followed ten redirects and was refused the eleventh
C29_Witness ==
    \E id \in OpIds :
        /\ ops[id].kind = "get" /\ ops[id].pc = "rejected"
        /\ ops[id].err = "TooManyRedirects"
        /\ ops[id].redirs = MAX_REDIRECTS /\ ops[id].followed = MAX_REDIRECTS
        /\ ops[id].tries = 0 /\ ops[id].attempts = 1

C30_Step ==
    \A address \in Addresses :
        Get(address) /\ address.scheme # "https" =>
            /\ ops'[calls'].pc = "rejected"
            /\ ops'[calls'].attempts = 0

\* C30: get rejects an address that does not begin with https:// and makes
\* no request for it.
C30_HttpsRequired == [][C30_Step]_vars

\* ---- pages of any JSON kind, rel values of any case ----

\* C31: fetchAllJSONPages rejects whenever a page it fetched, the first, a
\* middle or the last one, with or without a next link, is not a JSON array:
\* a fulfilled call has fetched arrays only.
C31_NonArrayPageRejects ==
    \A id \in OpIds :
        ops[id].kind = "pages" /\ ops[id].pc = "fulfilled" =>
            \A i \in DOMAIN ops[id].kinds : ops[id].kinds[i] = "array"

\* The rel value in lower case
LowerRel(rel) == IF rel = "Next" THEN "next" ELSE rel

\* The links of the header whose rel value is next, in whatever case
NextLinks(header) == { j \in DOMAIN header : LowerRel(header[j].rel) = "next" }

C32_Step ==
    \A id \in OpIds : \A p \in PageIds :
        PageFetched(id, p) =>
            LET header == ops[id].server[p]
            IN IF NextLinks(header) = {} THEN ops'[id].pc # "request"
               ELSE /\ ops'[id].pc = "request"
                    /\ ops'[id].address = header[Min(NextLinks(header))].url

\* C32: the page fetched next is the address of the Link entry whose rel
\* value is next, in whatever case it is written and wherever the entry
\* stands among the other entries of the header; with no such entry the
\* page is the last one.
C32_NextLinkFollowed == [][C32_Step]_vars

\* ---- the lines of a manifest body ----

\* A line as key and value: split at its first ':' into the text before and
\* the text after, each trimmed; a line with no ':' is a key with the empty
\* value.
KeyValue(line) ==
    LET split == IndexOf(line, ":")
    IN IF split = 0 THEN << line, << >> >>
       ELSE << Trim(SubSeq(line, 1, split - 1)), Trim(SubSeq(line, split + 1, Len(line))) >>

\* The non-empty trimmed lines of a text
TrimmedLines(text) ==
    SelectSeq([i \in DOMAIN Split(text) |-> Trim(Split(text)[i])], LAMBDA line : line # << >>)

\* C33: parsing records every non-empty trimmed line of the body under the
\* text before its first ':' with the trimmed text after it as the value (the
\* value of the last such line, if several have one key), and a line with no
\* ':' under the line's text with the empty value; it records nothing else.
C33_KeyValueLines ==
    \A id \in OpIds :
        ops[id].kind = "parse" =>
            LET lines == TrimmedLines(ops[id].text)
                last(k) == Max({ i \in DOMAIN lines : KeyValue(lines[i])[1] = k })
            IN /\ DOMAIN ops[id].data = { KeyValue(lines[i])[1] : i \in DOMAIN lines }
               /\ \A k \in DOMAIN ops[id].data :
                      ops[id].data[k] = KeyValue(lines[last(k)])[2]

\* ---- the manifests loadFromString returns ----

\* The platforms a manifest can name a file for, and whether it does
HasFile(data, platform) == Key(platform \o "-file") \in DOMAIN data
HasSize(data, platform) == Key(platform \o "-size") \in DOMAIN data

\* C34: every manifest that loadFromString returns has a valid semver
\* version, and for every platform it has the file together with the size
\* (and the sha512), or none of them.
C34_LoadedManifestValid ==
    \A id \in OpIds :
        ops[id].kind = "manifest" /\ ops[id].pc = "loaded" /\ ops[id].result.ok =>
            /\ Key("version") \in DOMAIN ops[id].result.data
            /\ ops[id].result.data[Key("version")] \in ValidVersionStrings
            /\ \A platform \in {"mac", "win"} :
                   HasFile(ops[id].result.data, platform)
                       <=> HasSize(ops[id].result.data, platform)

\* ---- what is announced and remembered of a download ----

\* C35: the manifest passed with 'update-downloaded' is the one whose file,
\* size and sha512 the download of that call used, which is the manifest its
\* check found, also when another check replaced newVersion meanwhile.
C35_DownloadedManifest ==
    \A id \in OpIds : \A i \in DOMAIN events[id] :
        events[id][i].name = "update-downloaded" =>
            /\ ops[id].dl = "ok"
            /\ events[id][i].man = ops[id].manifest

\* The call whose _download wrote the file at path, or 0
DownloadOf(path) ==
    LET ids == { id \in OpIds : path \in { PathJoin(d, TmpName(id)) :
                                            d \in {DefaultDirectory, OtherDirectory} } }
    IN IF ids = {} THEN 0 ELSE CHOOSE id \in ids : TRUE

\* C36: every UpdateInfo that scheduleInstallOnQuit or quitAndInstall writes
\* for a downloaded file has the version, the size and the hash of the
\* manifest that file was verified against, which is the manifest found by
\* the check of the call that downloaded it, also when a later check has
\* found another version since.
C36_InfoSelfConsistent ==
    \A w \in OpIds :
        ops[w].pc = "write" =>
            LET id == DownloadOf(ops[w].info.updateFile)
            IN id # 0 => ops[w].info = UpdateInfo(ops[id].manifest, ops[w].info.updateFile)

\* ---- the exit hook and the flags ----

\* The step runs the before-quit hook, which cancels the quit: the hook is
\* registered (by this step or before) and is gone after the step.
HookCancelsQuit == exitHookInstalled' /\ hooks' = 0 /\ ~(exitHookInstalled /\ hooks = 0)

C37_Step == HookCancelsQuit => Len(installs') = Len(installs) + 1

\* C37: whenever the exit hook cancels the quit of the host, the same run of
\* the hook invokes the installer.
C37_CancelledQuitInstalls == [][C37_Step]_vars

\* C38: the checking flag is true exactly while a check is in flight, also
\* when two checks overlap.
C38_CheckingFlag == checking <=> Checking # {}

\* The calls whose started _download has not ended
Downloading == { id \in OpIds : ops[id].dl \in {"fetch", "verify"} }

C39_Step ==
    \A id \in OpIds :
        /\ FailStep(id) => ~downloading'
        /\ ops[id].dl # "DownloadInProgress" /\ ops'[id].dl = "DownloadInProgress"
              => downloading /\ downloading'

\* C39: the downloading flag is true exactly while a started download is in
\* flight; every started download ends, while the application runs, and
\* resets the flag, whether it succeeds or fails at the directory, the fetch,
\* the size or the hash, so that a later download can start; a download
\* refused as already in progress leaves the flag set.
C39_DownloadingFlag ==
    /\ [](downloading <=> Downloading # {})
    /\ [][C39_Step]_vars
    /\ \A id \in OpIds :
           (id \in Downloading) ~> (id \notin Downloading \/ phase # "running")

\* A download that failed has reset the flag and a later one is in flight
C39_Witness ==
    \E a, b \in OpIds :
        /\ ops[a].dl = "failed" /\ b \in Downloading
        /\ downloading

\* ---- requests after the promise of get has settled ----

\* The promise handed to the caller of get has settled
Settled(id) == ops[id].kind = "get" /\ ops[id].pc \in {"fulfilled", "rejected"}

\* The retry chains started by a further call of handleError for a request
\* that had one already
Orphans(id) == { t \in 1 .. MAX_RETRIES : ops[id].orphans[t] > 0 }

C40_Step == \A id \in OpIds : Settled(id) => ops'[id].attempts = ops[id].attempts

\* C40: a failed request starts one retry at most, and once the promise of
\* get has settled no request is made for that call, also when the socket
\* times out after the response was delivered and when the abort of a
\* timed-out request raises 'error' as well.
C40_OneRetryNoneAfterSettled ==
    /\ [](\A id \in OpIds : ops[id].kind = "get" => Orphans(id) = {})
    /\ [][C40_Step]_vars

====
